---- MODULE Spec2Model ----
(***************************************************************************)
(* HeatAQ: the schedule resolver (PoolSchedulerDB) and the hourly pool     *)
(* simulation with its predictive control planner (PoolEnergySystemV56).   *)
(***************************************************************************)
EXTENDS Integers, Sequences, FiniteSets, TLC

VARIABLES
    database,   \* the tables the scheduler's constructor reads
    sched,      \* the loaded PoolSchedulerDB object (schedules, programs, exceptions)
    loaded,     \* history: the configuration as it was when the constructor returned
    now,        \* the caller's clock: the date and hour the next query is made for
    call,       \* the last scheduler query: operation and arguments
    res         \* what that query returned

(***************************************************************************)
(* Python values: None and optional fields                                 *)
(***************************************************************************)
None == <<>>
Some(v) == <<v>>
IsNone(o) == o = <<>>
Val(o) == o[1]

\* a call that returns v, a call that raises
Ok(v) == [raised |-> FALSE, val |-> v]
Raise == [raised |-> TRUE, val |-> None]

Max(a, b) == IF a >= b THEN a ELSE b
Min(a, b) == IF a <= b THEN a ELSE b

(***************************************************************************)
(* datetime.date: proleptic Gregorian calendar, ordinals and weekdays      *)
(***************************************************************************)
Date(y, m, d) == [year |-> y, month |-> m, day |-> d]

IsLeap(y) == (y % 4 = 0) /\ ((y % 100 # 0) \/ (y % 400 = 0))

DaysInMonth(y, m) ==
    IF m = 2 THEN (IF IsLeap(y) THEN 29 ELSE 28)
    ELSE IF m \in {4, 6, 9, 11} THEN 30 ELSE 31

DaysBeforeYear(y) ==
    365 * (y - 1) + ((y - 1) \div 4) - ((y - 1) \div 100) + ((y - 1) \div 400)

RECURSIVE DaysBeforeMonth(_, _)
DaysBeforeMonth(y, m) ==
    IF m = 1 THEN 0 ELSE DaysBeforeMonth(y, m - 1) + DaysInMonth(y, m - 1)

\* date.toordinal()
ToOrdinal(dt) == DaysBeforeYear(dt.year) + DaysBeforeMonth(dt.year, dt.month) + dt.day

RECURSIVE YearOfOrdinal(_, _)
YearOfOrdinal(n, y) ==
    IF n <= DaysBeforeYear(y) THEN YearOfOrdinal(n, y - 1)
    ELSE IF n > DaysBeforeYear(y + 1) THEN YearOfOrdinal(n, y + 1)
    ELSE y

RECURSIVE MonthOfDay(_, _, _)
MonthOfDay(y, k, m) ==
    IF k <= DaysInMonth(y, m) THEN Date(y, m, k)
    ELSE MonthOfDay(y, k - DaysInMonth(y, m), m + 1)

\* date.fromordinal(n)
FromOrdinal(n) ==
    LET y == YearOfOrdinal(n, (n \div 366) + 1)
    IN  MonthOfDay(y, n - DaysBeforeYear(y), 1)

\* date + timedelta(days=k)
AddDays(dt, k) == FromOrdinal(ToOrdinal(dt) + k)

\* date.weekday(): Monday is 0
Weekday(dt) == (ToOrdinal(dt) + 6) % 7

\* Python's tuple order on (month, day)
TupleLE(m1, d1, m2, d2) == (m1 < m2) \/ (m1 = m2 /\ d1 <= d2)

(***************************************************************************)
(* PoolSchedulerDB: loading                                                *)
(*                                                                         *)
(* A database is a record of row sequences, each in table order; a NULL    *)
(* column is None.                                                         *)
(***************************************************************************)
Truthy(o) == ~IsNone(o) /\ Val(o) # 0

\* ORDER BY priority DESC: MySQL sorts NULL as the lowest value, so that rows
\* without a priority come last; rows of equal priority are left in table order
PriorityBefore(a, b) ==
    /\ ~IsNone(a.priority)
    /\ (IsNone(b.priority) \/ Val(a.priority) > Val(b.priority))

RECURSIVE InsertByPriority(_, _)
InsertByPriority(sorted, r) ==
    IF sorted = <<>> THEN <<r>>
    ELSE IF PriorityBefore(r, Head(sorted)) THEN <<r>> \o sorted
    ELSE <<Head(sorted)>> \o InsertByPriority(Tail(sorted), r)

RECURSIVE OrderByPriorityDesc(_)
OrderByPriorityDesc(rows) ==
    IF rows = <<>> THEN <<>>
    ELSE InsertByPriority(OrderByPriorityDesc(SubSeq(rows, 1, Len(rows) - 1)),
                          rows[Len(rows)])

\* _load_date_ranges: keeps (month, day) of start_date and end_date only
LoadDateRange(row) ==
    [id               |-> row.id,
     priority         |-> IF Truthy(row.priority) THEN Val(row.priority) ELSE 0,
     week_schedule_id |-> row.week_schedule_id,
     start_month      |-> row.start_date.month,
     start_day        |-> row.start_date.day,
     end_month        |-> row.end_date.month,
     end_day          |-> row.end_date.day,
     is_recurring     |-> row.is_recurring]

_load_date_ranges(rows) ==
    LET active == OrderByPriorityDesc(SelectSeq(rows, LAMBDA r : r.is_active))
    IN  [i \in 1..Len(active) |-> LoadDateRange(active[i])]

\* _load_exception_days
LoadException(row) ==
    [id                |-> row.id,
     day_schedule_name |-> row.day_schedule_name,
     fixed_month       |-> row.fixed_month,
     fixed_day         |-> row.fixed_day,
     is_moving         |-> row.is_moving,
     easter_offset     |-> row.easter_offset_days,
     priority          |-> IF Truthy(row.priority) THEN Val(row.priority) ELSE 50]

_load_exception_days(rows) ==
    LET ordered == OrderByPriorityDesc(rows)
    IN  [i \in 1..Len(ordered) |-> LoadException(ordered[i])]

\* _load_template: the site's first template row, an error if there is none
_load_template(db) ==
    IF db.schedule_templates = <<>> THEN Raise ELSE Ok(db.schedule_templates[1])

\* __init__: the object the constructor leaves behind
LoadScheduler(db) ==
    [template       |-> _load_template(db).val,
     schedules      |-> db.day_schedules,
     week_schedules |-> db.week_schedules,
     date_ranges    |-> _load_date_ranges(db.calendar_date_ranges),
     exception_days |-> _load_exception_days(db.calendar_exception_days),
     holiday_dates  |-> db.holiday_reference_days]

\* PoolSchedulerDB(...): the template is loaded first, and its error ends the
\* construction
PoolSchedulerDB(db) ==
    IF _load_template(db).raised THEN Raise ELSE Ok(LoadScheduler(db))

(***************************************************************************)
(* PoolSchedulerDB: resolution of a date                                   *)
(***************************************************************************)
\* self.schedules is a dict keyed by name, in the order ORDER BY name gave
HasSchedule(s, name) == \E i \in 1..Len(s.schedules) : s.schedules[i].name = name
ScheduleNamed(s, name) ==
    s.schedules[CHOOSE i \in 1..Len(s.schedules) : s.schedules[i].name = name]

\* the fallback without the correction term m
_get_easter_date_uncorrected(s, year) ==
    IF year \in DOMAIN s.holiday_dates THEN s.holiday_dates[year]
    ELSE
    LET a == year % 19
        b == year \div 100
        c == year % 100
        d == b \div 4
        e == b % 4
        f == (b + 8) \div 25
        g == (b - f + 1) \div 3
        h == (19 * a + b - d - g + 15) % 30
        i == c \div 4
        k == c % 4
        l == (32 + 2 * e + 2 * i - h - k) % 7
        m == 0
        month == (h + l - 7 * m + 114) \div 31
        day == ((h + l - 7 * m + 114) % 31) + 1
    IN  Date(year, month, day)

_get_easter_date(s, year) ==
    IF year \in DOMAIN s.holiday_dates THEN s.holiday_dates[year]
    ELSE
    LET a == year % 19
        b == year \div 100
        c == year % 100
        d == b \div 4
        e == b % 4
        f == (b + 8) \div 25
        g == (b - f + 1) \div 3
        h == (19 * a + b - d - g + 15) % 30
        i == c \div 4
        k == c % 4
        l == (32 + 2 * e + 2 * i - h - k) % 7
        m == (a + 11 * h + 22 * l) \div 451
        month == (h + l - 7 * m + 114) \div 31
        day == ((h + l - 7 * m + 114) % 31) + 1
    IN  Date(year, month, day)

ExceptionMatches(s, exc, date) ==
    IF exc.is_moving /\ ~IsNone(exc.easter_offset)
    THEN date = AddDays(_get_easter_date(s, date.year), Val(exc.easter_offset))
    ELSE IF Truthy(exc.fixed_month) /\ Truthy(exc.fixed_day)
    THEN date.month = Val(exc.fixed_month) /\ date.day = Val(exc.fixed_day)
    ELSE FALSE

RECURSIVE CheckExceptionsFrom(_, _, _)
CheckExceptionsFrom(s, date, i) ==
    IF i > Len(s.exception_days) THEN None
    ELSE IF ExceptionMatches(s, s.exception_days[i], date)
         THEN Some(s.exception_days[i])
         ELSE CheckExceptionsFrom(s, date, i + 1)

_check_exception_days(s, date) == CheckExceptionsFrom(s, date, 1)

\* the year-crossing branch written with "and"
_date_in_range_and(date, date_range) ==
    IF date_range.is_recurring
    THEN /\ TupleLE(date_range.start_month, date_range.start_day,
                    date.month, date.day)
         /\ TupleLE(date.month, date.day,
                    date_range.end_month, date_range.end_day)
    ELSE FALSE

_date_in_range(date, date_range) ==
    IF date_range.is_recurring
    THEN IF TupleLE(date_range.start_month, date_range.start_day,
                    date_range.end_month, date_range.end_day)
         THEN /\ TupleLE(date_range.start_month, date_range.start_day,
                         date.month, date.day)
              /\ TupleLE(date.month, date.day,
                         date_range.end_month, date_range.end_day)
         ELSE \/ TupleLE(date_range.start_month, date_range.start_day,
                         date.month, date.day)
              \/ TupleLE(date.month, date.day,
                         date_range.end_month, date_range.end_day)
    ELSE FALSE

\* a weekday without entry read as a closed day
DayEntryOrClosed(s, week_id, date) ==
    IF IsNone(s.week_schedules[week_id][Weekday(date) + 1]) THEN Some("Closed")
    ELSE s.week_schedules[week_id][Weekday(date) + 1]

\* week_schedule['days'].get(dow), with dow from date.weekday()
DayEntry(s, week_id, date) == s.week_schedules[week_id][Weekday(date) + 1]

RECURSIVE CheckDateRangesFrom(_, _, _)
CheckDateRangesFrom(s, date, i) ==
    IF i > Len(s.date_ranges) THEN None
    ELSE LET dr == s.date_ranges[i]
         IN  IF /\ _date_in_range(date, dr)
                /\ dr.week_schedule_id \in DOMAIN s.week_schedules
                /\ ~IsNone(DayEntry(s, dr.week_schedule_id, date))
             THEN DayEntry(s, dr.week_schedule_id, date)
             ELSE CheckDateRangesFrom(s, date, i + 1)

BaseWeekEntry(s, date) ==
    LET base_week_id == s.template.base_week_schedule_id
    IN  IF Truthy(base_week_id) /\ Val(base_week_id) \in DOMAIN s.week_schedules
        THEN DayEntry(s, Val(base_week_id), date)
        ELSE None

\* the four sources in their order of priority
ScheduleByPriority(s, exception, program, base) ==
    IF ~IsNone(exception) THEN Ok(Val(exception).day_schedule_name)
    ELSE IF ~IsNone(program) THEN Ok(program)
    ELSE IF ~IsNone(base) THEN Ok(base)
    ELSE IF Len(s.schedules) > 0 THEN Ok(Some(s.schedules[1].name))
    ELSE Raise

\* programs consulted before exception days
get_schedule_for_date_programs_first(s, date) ==
    LET exception == _check_exception_days(s, date)
        program == CheckDateRangesFrom(s, date, 1)
        base == BaseWeekEntry(s, date)
    IN  IF ~IsNone(program) THEN Ok(program)
        ELSE IF ~IsNone(exception) THEN Ok(Val(exception).day_schedule_name)
        ELSE IF ~IsNone(base) THEN Ok(base)
        ELSE IF Len(s.schedules) > 0 THEN Ok(Some(s.schedules[1].name))
        ELSE Raise

get_schedule_for_date(s, date) ==
    ScheduleByPriority(s, _check_exception_days(s, date),
                       CheckDateRangesFrom(s, date, 1), BaseWeekEntry(s, date))

\* a name that is not configured read as a day without periods
PeriodsNamedOrClosed(s, schedule_name) ==
    IF schedule_name.raised THEN Raise
    ELSE IF IsNone(schedule_name.val) \/ ~HasSchedule(s, Val(schedule_name.val))
    THEN Ok(<<>>)
    ELSE Ok(ScheduleNamed(s, Val(schedule_name.val)).periods)

\* self.schedules[schedule_name]['periods']
PeriodsNamed(s, schedule_name) ==
    IF schedule_name.raised THEN Raise
    ELSE IF IsNone(schedule_name.val) \/ ~HasSchedule(s, Val(schedule_name.val))
    THEN Raise
    ELSE Ok(ScheduleNamed(s, Val(schedule_name.val)).periods)

get_periods(s, date) == PeriodsNamed(s, get_schedule_for_date(s, date))

(***************************************************************************)
(* PoolSchedulerDB: queries within a day                                   *)
(***************************************************************************)
\* the closing hour counted as open
PeriodHasHourInclusive(period, hour) ==
    IF period.from < period.to
    THEN period.from <= hour /\ hour <= period.to
    ELSE hour >= period.from \/ hour <= period.to

PeriodHasHour(period, hour) ==
    IF period.from < period.to
    THEN period.from <= hour /\ hour < period.to
    ELSE hour >= period.from \/ hour < period.to

RECURSIVE FirstPeriodAt(_, _, _)
FirstPeriodAt(periods, hour, i) ==
    IF i > Len(periods) THEN None
    ELSE IF PeriodHasHour(periods[i], hour) THEN Some(periods[i])
    ELSE FirstPeriodAt(periods, hour, i + 1)

\* the loop over the periods of the day
PeriodAmong(periods, hour) ==
    IF periods.raised THEN Raise ELSE Ok(FirstPeriodAt(periods.val, hour, 1))

get_current_period(s, date, hour) == PeriodAmong(get_periods(s, date), hour)

\* period['target_temp'] if period else None
TemperatureOf(period) ==
    IF period.raised THEN Raise
    ELSE IF IsNone(period.val) THEN Ok(None)
    ELSE Ok(Some(Val(period.val).target_temp))

get_current_temperature(s, date, hour) ==
    TemperatureOf(get_current_period(s, date, hour))

\* temp is not None
IsTemperature(temp) == IF temp.raised THEN Raise ELSE Ok(~IsNone(temp.val))

is_open(s, date, hour) == IsTemperature(get_current_temperature(s, date, hour))

get_period_duration(period) ==
    IF period.from < period.to THEN period.to - period.from
    ELSE (24 - period.from) + period.to

\* list.sort(key=...) is stable: an element goes after those with an equal key
RECURSIVE InsertByTime(_, _)
InsertByTime(sorted, t) ==
    IF sorted = <<>> THEN <<t>>
    ELSE IF t.time < Head(sorted).time THEN <<t>> \o sorted
    ELSE <<Head(sorted)>> \o InsertByTime(Tail(sorted), t)

RECURSIVE SortByTime(_)
SortByTime(ts) ==
    IF ts = <<>> THEN <<>>
    ELSE InsertByTime(SortByTime(SubSeq(ts, 1, Len(ts) - 1)), ts[Len(ts)])

RECURSIVE TransitionsOf(_, _, _)
TransitionsOf(periods, i, last_target) ==
    IF i > Len(periods) THEN <<>>
    ELSE << [time |-> periods[i].from, type |-> "open",
             target_temp |-> Some(periods[i].target_temp), from_temp |-> last_target],
            [time |-> periods[i].to, type |-> "close",
             target_temp |-> None, from_temp |-> Some(periods[i].target_temp)] >>
         \o TransitionsOf(periods, i + 1, Some(periods[i].target_temp))

\* the transitions left in period order
get_daily_transitions_unsorted(s, date) ==
    LET periods == get_periods(s, date)
    IN  IF periods.raised THEN Raise
        ELSE Ok(TransitionsOf(periods.val, 1, None))

\* the transitions of the periods, sorted by time
SortedTransitions(periods) ==
    IF periods.raised THEN Raise
    ELSE Ok(SortByTime(TransitionsOf(periods.val, 1, None)))

get_daily_transitions(s, date) == SortedTransitions(get_periods(s, date))

\* the first 'open' transition of the list that is later than after_hour
RECURSIVE FirstOpenAfter(_, _, _)
FirstOpenAfter(transitions, after_hour, i) ==
    IF i > Len(transitions) THEN None
    ELSE IF transitions[i].type = "open" /\ transitions[i].time > after_hour
         THEN Some(transitions[i])
         ELSE FirstOpenAfter(transitions, after_hour, i + 1)

LookaheadDays == 30

Opening(date, trans) ==
    [date |-> date, hour |-> trans.time, target_temp |-> Val(trans.target_temp)]

\* the following days, one pass of the loop per day
RECURSIVE NextOpeningFrom(_, _, _), OpeningOnDay(_, _, _, _, _)
NextOpeningFrom(s, current_date, day_offset) ==
    IF day_offset > LookaheadDays THEN Ok(None)
    ELSE OpeningOnDay(s, current_date, day_offset,
                      AddDays(current_date, day_offset),
                      get_daily_transitions(s, AddDays(current_date, day_offset)))

OpeningOnDay(s, current_date, day_offset, next_date, transitions) ==
    IF transitions.raised THEN Raise
    ELSE IF ~IsNone(FirstOpenAfter(transitions.val, -1, 1))
    THEN Ok(Some(Opening(next_date, Val(FirstOpenAfter(transitions.val, -1, 1)))))
    ELSE NextOpeningFrom(s, current_date, day_offset + 1)

\* the rest of today
OpeningToday(s, current_date, current_hour, transitions) ==
    IF transitions.raised THEN Raise
    ELSE IF ~IsNone(FirstOpenAfter(transitions.val, current_hour, 1))
    THEN Ok(Some(Opening(current_date,
                         Val(FirstOpenAfter(transitions.val, current_hour, 1)))))
    ELSE NextOpeningFrom(s, current_date, 1)

find_next_opening(s, current_date, current_hour) ==
    OpeningToday(s, current_date, current_hour, get_daily_transitions(s, current_date))

(***************************************************************************)
(* Databases the scheduler is constructed from                             *)
(***************************************************************************)
Period(f, t) == [from |-> f, to |-> t, target_temp |-> 28]

DaySchedules ==
    << [name |-> "Closed",  periods |-> <<>>],
       [name |-> "Night",   periods |-> <<Period(22, 6)>>],
       [name |-> "Normal",  periods |-> <<Period(10, 20)>>],
       [name |-> "Weekend", periods |-> <<Period(15, 20), Period(8, 12)>>] >>

AllWeek(name) == [i \in 1..7 |-> Some(name)]

\* week 2 has no schedule joined for Monday
WeekSchedules ==
    (1 :> [i \in 1..7 |-> IF i <= 5 THEN Some("Normal") ELSE Some("Weekend")])
    @@ (2 :> [i \in 1..7 |-> IF i = 1 THEN None ELSE Some("Night")])
    @@ (3 :> AllWeek("Closed"))
    @@ (4 :> AllWeek("Normal"))
    @@ (5 :> AllWeek("Night"))

RangeRow(id, prio, week, sd, ed, rec, act) ==
    [id |-> id, priority |-> prio, week_schedule_id |-> week,
     start_date |-> sd, end_date |-> ed, is_recurring |-> rec, is_active |-> act]

DateRangeRows ==
    << RangeRow(3, Some(60), 3, Date(2024, 12, 22), Date(2024, 12, 28), FALSE, TRUE),
       RangeRow(1, Some(50), 2, Date(2024, 12, 20), Date(2025, 1, 5), TRUE, TRUE),
       RangeRow(4, Some(45), 1, Date(2024, 7, 1), Date(2024, 7, 7), TRUE, FALSE),
       RangeRow(2, Some(40), 3, Date(2024, 6, 25), Date(2024, 8, 15), TRUE, TRUE),
       RangeRow(5, Some(30), 9, Date(2024, 12, 1), Date(2024, 12, 18), TRUE, TRUE),
       RangeRow(6, Some(20), 5, Date(2024, 12, 16), Date(2024, 12, 17), TRUE, TRUE),
       RangeRow(7, Some(10), 5, Date(2024, 12, 30), Date(2024, 12, 30), TRUE, TRUE) >>

FixedRow(id, prio, name, m, d) ==
    [id |-> id, priority |-> prio, day_schedule_name |-> name,
     fixed_month |-> Some(m), fixed_day |-> Some(d),
     is_moving |-> FALSE, easter_offset_days |-> None]

MovingRow(id, prio, name, off) ==
    [id |-> id, priority |-> prio, day_schedule_name |-> name,
     fixed_month |-> None, fixed_day |-> None,
     is_moving |-> TRUE, easter_offset_days |-> Some(off)]

ExceptionRows ==
    << FixedRow(1, Some(100), Some("Closed"), 12, 25),
       MovingRow(2, Some(90), Some("Closed"), -2),
       MovingRow(3, Some(90), Some("Weekend"), 1),
       FixedRow(4, Some(80), None, 12, 31),
       FixedRow(5, Some(10), Some("Normal"), 12, 25) >>

\* two exception days on December 26, the first entered without a priority
UnrankedRows ==
    << FixedRow(6, None, Some("Closed"), 12, 26),
       FixedRow(7, Some(10), Some("Normal"), 12, 26) >>

NoHolidays == [y \in {} |-> Date(y, 1, 1)]

Database(base, schedules, ranges, exceptions, holidays) ==
    [schedule_templates |-> <<[template_id |-> 1, base_week_schedule_id |-> base]>>,
     day_schedules |-> schedules,
     week_schedules |-> WeekSchedules,
     calendar_date_ranges |-> ranges,
     calendar_exception_days |-> exceptions,
     holiday_reference_days |-> holidays]

\* the site has no row in schedule_templates
NoTemplate(db) == [db EXCEPT !.schedule_templates = <<>>]

Databases ==
    { Database(Some(1), DaySchedules, DateRangeRows, ExceptionRows,
               (2024 :> Date(2024, 3, 31))),
      Database(Some(1), DaySchedules, DateRangeRows, ExceptionRows, NoHolidays),
      Database(Some(1), DaySchedules, <<>>, <<>>, NoHolidays),
      Database(Some(3), DaySchedules, <<>>, SubSeq(ExceptionRows, 3, 3), NoHolidays),
      Database(None, DaySchedules, SubSeq(DateRangeRows, 2, 2), <<>>, NoHolidays),
      Database(Some(1), DaySchedules, <<>>, UnrankedRows, NoHolidays),
      Database(Some(1), <<>>, <<>>, <<>>, NoHolidays),
      Database(None, <<>>, <<>>, <<>>, NoHolidays),
      NoTemplate(Database(Some(1), DaySchedules, <<>>, <<>>, NoHolidays)) }

(***************************************************************************)
(* PoolEnergySystemV56: numbers                                            *)
(*                                                                         *)
(* The simulator computes in floating point.  Here every quantity is an    *)
(* integer on a grid chosen so that the conversions between temperature    *)
(* and energy are exact: the code's                                        *)
(*     thermal_mass_rate = volume_m3 * 1000 * 4186 / 3600000   [kWh/K]     *)
(* is the ratio KUnit / EUnit, with temperatures counted in 1/KUnit K and  *)
(* powers (per hour: energies) in 1/EUnit kW.  A temperature difference    *)
(* times thermal_mass_rate is then the same integer read as an energy, and *)
(* an energy divided by thermal_mass_rate the same integer read as a       *)
(* temperature.  Divisions that leave the grid round down (Div).           *)
(***************************************************************************)
RECURSIVE GCD(_, _)
GCD(a, b) == IF b = 0 THEN a ELSE GCD(b, a % b)

Abs(a) == IF a < 0 THEN -a ELSE a

\* floor of a / b, b > 0
Div(a, b) == a \div b

\* floor of a * n / d without forming a * n (d > 0, n >= 0)
MulDiv(a, n, d) ==
    LET g == GCD(n, d)
        nn == n \div g
        dd == d \div g
    IN  nn * (a \div dd) + ((nn * (a % dd)) \div dd)

\* the same value, splitting n instead of a (for small a and large n, d)
MulDivN(a, n, d) == a * (n \div d) + ((a * (n % d)) \div d)

\* a / b rounded up, b > 0
DivUp(a, b) == -((-a) \div b)

\* hours as exact fractions n / d, d > 0
Frac(n, d) == [n |-> n, d |-> d]
Whole(h) == Frac(h, 1)
FracLE(a, b) == a.n * b.d <= b.n * a.d
FracMin(a, b) == IF FracLE(a, b) THEN a ELSE b
FracSub(a, b) == Frac(a.n * b.d - b.n * a.d, a.d * b.d)
FracMax0(a) == IF a.n < 0 THEN Whole(0) ELSE a
FracFloor(a) == a.n \div a.d
Reduced(a) == LET g == GCD(Abs(a.n), a.d) IN Frac(a.n \div g, a.d \div g)

KUnit(cfg) ==
    (2093 * cfg.pool.volume_m3) \div GCD(2093 * cfg.pool.volume_m3, 1800)
EUnit(cfg) == 1800 \div GCD(2093 * cfg.pool.volume_m3, 1800)

\* a configured temperature in degrees C, a configured power in kW
Deg(cfg, c) == c * KUnit(cfg)
Kw(cfg, p) == p * EUnit(cfg)

\* __init__: self.thermal_mass_rate as the number the code adds to powers in kW
thermal_mass_rate(cfg) == KUnit(cfg)

(***************************************************************************)
(* Weather and heat demand                                                 *)
(*                                                                         *)
(* The heat flows are transcendental functions of the weather and of the   *)
(* water temperature.  A weather row gives, in kW, their values at the     *)
(* target temperature and the slope of the surface loss in the water       *)
(* temperature; calculate_heat_demand combines them as the code does.  The *)
(* row also gives the wind speed in m/s, from which the effective U-value  *)
(* of the cover is computed as a fraction.                                 *)
(***************************************************************************)
Row(evap, conv, rad, cover, floor, walls, solar, slope, wind_speed) ==
    [evap |-> evap, conv |-> conv, rad |-> rad, cover |-> cover,
     floor |-> floor, walls |-> walls, solar |-> solar, slope |-> slope,
     wind_speed |-> wind_speed]

\* 1 / (1/u_rated - 1/h_natural + 1/h_wind) without the floor at u_rated
calculate_cover_u_effective_unfloored(cfg, u_rated, wind_speed) ==
    LET h_wind_1000 == 5700 + 38 * wind_speed * cfg.weather.wind_factor_pct
        denominator == (7 - u_rated) * h_wind_1000 + 7000 * u_rated
    IN  IF u_rated = 0 \/ denominator = 0 THEN Whole(u_rated)
        ELSE IF denominator < 0 THEN Whole(u_rated)
        ELSE Reduced(Frac(7 * u_rated * h_wind_1000, denominator))

\* h_natural = 7, h_wind = 5.7 + 3.8 * wind_speed * wind_factor;
\* 1 / (1/u_rated - 1/h_natural + 1/h_wind), u_rated on ZeroDivisionError,
\* and at least u_rated
calculate_cover_u_effective(cfg, u_rated, wind_speed) ==
    LET h_wind_1000 == 5700 + 38 * wind_speed * cfg.weather.wind_factor_pct
        denominator == (7 - u_rated) * h_wind_1000 + 7000 * u_rated
    IN  IF u_rated = 0 \/ denominator = 0 THEN Whole(u_rated)
        ELSE IF denominator < 0 THEN Whole(u_rated)
        ELSE IF FracLE(Frac(7 * u_rated * h_wind_1000, denominator), Whole(u_rated))
        THEN Whole(u_rated)
        ELSE Reduced(Frac(7 * u_rated * h_wind_1000, denominator))

is_pool_open(sch, ts) == is_open(sch, ts.date, ts.hour).val

is_covered(cfg, sch, ts) ==
    IF ~cfg.operation.cover.enabled THEN FALSE ELSE ~is_pool_open(sch, ts)

RECURSIVE SumHoursOpen(_, _)
SumHoursOpen(periods, i) ==
    IF i > Len(periods) THEN 0
    ELSE (IF periods[i].from < periods[i].to
          THEN periods[i].to - periods[i].from
          ELSE 24 - periods[i].from + periods[i].to)
         + SumHoursOpen(periods, i + 1)

NoLoad == [Q_pool_refill |-> 0, Q_shower_thermal |-> 0, Q_shower_electric |-> 0]

\* the loads of an hour in which the pool is open hours_open hours of the day
NewWaterLoad(cfg, hours_open, T_pool) ==
    LET nw == cfg.new_water
        T_cold == nw.pool_refill.cold_water_temp
        \* bathers * liters * 4.186 * (T_pool - T_cold) / 3600 / hours_open  [kW]
        refill == MulDiv(T_pool - Deg(cfg, T_cold),
                         nw.bathers_per_day * nw.pool_refill.liters_per_bather,
                         1000 * cfg.pool.volume_m3 * hours_open)
        \* liters_hot * (T_hot - T_cold) = liters_shower * (T_target - T_cold)
        hot_kj == nw.bathers_per_day * nw.shower.liters_per_bather
                      * (nw.shower.target_temp - T_cold)
        \* bathers * liters_hot * 4.186 * (T_hot - T_cold) / 3600 / hours_open
        thermal == MulDiv(2093 * EUnit(cfg), hot_kj, 1800000 * hours_open)
        \* phase 1 at COP 4.5 up to hp_max_temp, phase 2 at COP 1 up to hot_water_temp
        electric == MulDiv(thermal,
                           2 * (nw.shower.hp_max_temp - T_cold)
                             + 9 * (nw.shower.hot_water_temp - nw.shower.hp_max_temp),
                           9 * (nw.shower.hot_water_temp - T_cold))
    IN  IF ~nw.shower.connected_to_pool_system
        THEN [Q_pool_refill |-> refill, Q_shower_thermal |-> thermal,
              Q_shower_electric |-> 0]
        ELSE [Q_pool_refill |-> refill, Q_shower_thermal |-> 0,
              Q_shower_electric |-> electric]

\* the loads spread over the hours of the day whether open or not
calculate_new_water_load_all_hours(cfg, sch, ts, T_pool) ==
    IF ~cfg.new_water.enabled THEN NoLoad
    ELSE NewWaterLoad(cfg, Max(1, SumHoursOpen(get_periods(sch, ts.date).val, 1)), T_pool)

calculate_new_water_load(cfg, sch, ts, T_pool) ==
    IF ~cfg.new_water.enabled THEN NoLoad
    ELSE IF ~is_pool_open(sch, ts) THEN NoLoad
    ELSE NewWaterLoad(cfg, SumHoursOpen(get_periods(sch, ts.date).val, 1), T_pool)

\* the heat balance of an hour, its schedule state and new-water loads given
HeatBalance(cfg, T_water, row, pool_open, covered, nw) ==
    LET \* the surface loss follows the water temperature
        rise == MulDiv(T_water - Deg(cfg, cfg.pool.target_temp),
                       Kw(cfg, row.slope), KUnit(cfg))
        Q_evap == IF covered THEN 0 ELSE Max(0, Kw(cfg, row.evap) + rise)
        Q_conv == IF covered THEN 0 ELSE Kw(cfg, row.conv)
        Q_rad == IF covered THEN 0 ELSE Kw(cfg, row.rad)
        Q_surface_loss == IF covered THEN Kw(cfg, row.cover) + rise
                          ELSE Q_evap + Q_conv + Q_rad
        Q_solar == IF covered
                   THEN MulDiv(Kw(cfg, row.solar), cfg.operation.cover.solar_transmittance_pct, 100)
                   ELSE Kw(cfg, row.solar)
        Q_losses == Q_surface_loss + Kw(cfg, row.floor) + Kw(cfg, row.walls)
        Q_net == Q_losses + nw.Q_pool_refill + nw.Q_shower_electric - Q_solar
    IN  [Q_total |-> Q_net, Q_losses |-> Q_losses, Q_solar |-> Q_solar,
         Q_pool_refill |-> nw.Q_pool_refill,
         Q_shower_thermal |-> nw.Q_shower_thermal,
         Q_shower_electric |-> nw.Q_shower_electric,
         Q_evap |-> Q_evap, Q_conv |-> Q_conv, Q_rad |-> Q_rad,
         Q_floor |-> Kw(cfg, row.floor), Q_walls |-> Kw(cfg, row.walls),
         covered |-> covered, pool_open |-> pool_open,
         u_effective |-> IF covered
                         THEN calculate_cover_u_effective(
                                  cfg, cfg.operation.cover.u_value_w_m2_k, row.wind_speed)
                         ELSE Whole(0)]

calculate_heat_demand(cfg, sch, T_water, row, ts) ==
    HeatBalance(cfg, T_water, row, is_pool_open(sch, ts), is_covered(cfg, sch, ts),
                calculate_new_water_load(cfg, sch, ts, T_water))

(***************************************************************************)
(* The schedule as the simulator asks for it.  The simulator's scheduler   *)
(* (PoolScheduler) answers the same questions as PoolSchedulerDB; its two  *)
(* *_info calls are the scheduler's find_next_opening and                  *)
(* get_current_period with the answer repacked.                            *)
(***************************************************************************)
\* the scheduler's answer repacked
OpeningInfo(sch, ts, next) ==
    IF IsNone(next) THEN None
    ELSE Some([hours_until |->
                   24 * (ToOrdinal(Val(next).date) - ToOrdinal(ts.date))
                   + Val(next).hour - ts.hour,
               period |-> Val(get_current_period(sch, Val(next).date,
                                                 Val(next).hour).val)])

get_next_opening_info(sch, ts) ==
    OpeningInfo(sch, ts, find_next_opening(sch, ts.date, ts.hour).val)

get_current_period_info(ts, periods) ==
    LET period == FirstPeriodAt(periods, ts.hour, 1)
    IN  IF IsNone(period) THEN None ELSE Some([period |-> Val(period)])

(***************************************************************************)
(* The weather table: one row an hour, constant over blocks of hours       *)
(***************************************************************************)
BlockHours == 24

RowAt(weather_df, i) == weather_df.rows[(i \div BlockHours) + 1]

TimestampAt(weather_df, i) ==
    [date |-> AddDays(weather_df.start, i \div 24), hour |-> i % 24]

\* sum of Q_total over the rows first .. first + n - 1 that exist, at T_water
RECURSIVE SumDemand(_, _, _, _, _, _)
SumDemand(cfg, sch, weather_df, first, n, T_water) ==
    IF n <= 0 \/ first >= weather_df.len THEN 0
    ELSE calculate_heat_demand(cfg, sch, T_water, RowAt(weather_df, first),
                               TimestampAt(weather_df, first)).Q_total
         + SumDemand(cfg, sch, weather_df, first + 1, n - 1, T_water)

(***************************************************************************)
(* plan_period_opening                                                     *)
(***************************************************************************)
\* the plan made without the energy stored above the target temperature
OpeningPlanNoBuffer(cfg, T_water, period_hours, day_demand_total) ==
    LET energy_buffer == Max(0, T_water - Deg(cfg, cfg.pool.target_temp))
        hp_capacity == Kw(cfg, cfg.heating_system.hp_capacity_kw)
        enough == hp_capacity * period_hours >= day_demand_total
        boiler_rate == IF enough THEN 0
                       ELSE DivUp(day_demand_total - hp_capacity * period_hours,
                                  period_hours)
    IN  [hp_rate_day |-> IF enough
                         THEN Max(0, Min(Div(day_demand_total, period_hours),
                                         hp_capacity))
                         ELSE hp_capacity,
         boiler_rate_day |-> boiler_rate,
         temp_start |-> T_water,
         day_demand |-> day_demand_total,
         energy_buffer |-> energy_buffer,
         case |-> IF boiler_rate = 0 THEN 1 ELSE 2]

\* the plan for a period of period_hours hours with the demand day_demand_total
OpeningPlan(cfg, T_water, period_hours, day_demand_total) ==
    LET temp_excess == Max(0, T_water - Deg(cfg, cfg.pool.target_temp))
        energy_buffer == temp_excess
        hp_capacity == Kw(cfg, cfg.heating_system.hp_capacity_kw)
        hp_available == hp_capacity * period_hours
        total_available == energy_buffer + hp_available
        enough == total_available >= day_demand_total
        hp_rate == IF enough
                   THEN Max(0, Min(Div(day_demand_total - energy_buffer, period_hours),
                                   hp_capacity))
                   ELSE hp_capacity
        energy_shortfall == day_demand_total - total_available
        \* a positive shortfall gives a positive rate
        boiler_rate == IF enough THEN 0 ELSE DivUp(energy_shortfall, period_hours)
    IN  [hp_rate_day |-> hp_rate,
         boiler_rate_day |-> boiler_rate,
         temp_start |-> T_water,
         day_demand |-> day_demand_total,
         energy_buffer |-> energy_buffer,
         case |-> IF boiler_rate = 0 THEN 1 ELSE 2]

plan_period_opening(cfg, sch, weather_df, current_idx, T_water, current_period) ==
    OpeningPlan(cfg, T_water, get_period_duration(current_period),
                SumDemand(cfg, sch, weather_df, current_idx,
                          get_period_duration(current_period), T_water))

(***************************************************************************)
(* plan_closed_period.  Its night_losses sum at T_avg_estimate is computed  *)
(* and never read; it is left out.                                         *)
(***************************************************************************)
ForecastHours == 10

\* the case selection made after pass 1 and again after pass 2
SelectCase(cfg, avg_demand) ==
    LET hp_capacity == Kw(cfg, cfg.heating_system.hp_capacity_kw)
        boiler_capacity == Kw(cfg, cfg.heating_system.boiler_capacity_kw)
        target == Deg(cfg, cfg.pool.target_temp)
        max_temp == Deg(cfg, cfg.pool.max_temp)
    IN  IF avg_demand <= hp_capacity
        THEN [case |-> 1, target_night |-> target,
              day_hp_power |-> avg_demand, day_boiler_power |-> 0]
        ELSE IF avg_demand <= hp_capacity + thermal_mass_rate(cfg)
        THEN [case |-> 2,
              \* extra_temp = (avg_demand - hp_capacity) * 10 / thermal_mass_rate
              target_night |-> Min(target + (avg_demand - hp_capacity) * 10, max_temp),
              day_hp_power |-> hp_capacity, day_boiler_power |-> 0]
        ELSE IF avg_demand <= hp_capacity + boiler_capacity
        THEN [case |-> 3, target_night |-> max_temp,
              day_hp_power |-> hp_capacity,
              day_boiler_power |-> avg_demand - hp_capacity]
        ELSE [case |-> 4, target_night |-> max_temp,
              day_hp_power |-> hp_capacity, day_boiler_power |-> boiler_capacity]

\* passes 2 and 3: the forecast hours simulated from T_sim_day with Q_supplied
RECURSIVE SimulateDay(_, _, _, _, _, _, _), SimulateDayHour(_, _, _, _, _, _, _, _)
SimulateDay(cfg, sch, weather_df, first, n, T_sim_day, Q_supplied) ==
    IF n <= 0 \/ first >= weather_df.len THEN 0
    ELSE SimulateDayHour(cfg, sch, weather_df, first, n, T_sim_day, Q_supplied,
                         calculate_heat_demand(cfg, sch, T_sim_day,
                                               RowAt(weather_df, first),
                                               TimestampAt(weather_df, first)).Q_total)

\* one simulated hour: delta_T = Q_net / thermal_mass_rate, within the limits
SimulateDayHour(cfg, sch, weather_df, first, n, T_sim_day, Q_supplied, Q_demand) ==
    Q_demand
    + SimulateDay(cfg, sch, weather_df, first + 1, n - 1,
                  Max(Deg(cfg, cfg.pool.min_temp),
                      Min(T_sim_day + (Q_supplied - Q_demand),
                          Deg(cfg, cfg.pool.max_temp))),
                  Q_supplied)

\* sum(day_demand) / len(day_demand) if day_demand else 0
Average(total, weather_df, forecast_start) ==
    LET n == Min(ForecastHours, weather_df.len - forecast_start)
    IN  IF n <= 0 THEN 0 ELSE Div(total, n)

\* pass 3 from the second target_night, the planned day powers
ForecastPass3(cfg, sch, weather_df, forecast_start, avg1, avg_demand, sel2) ==
    [first |-> avg1, avg_demand |-> avg_demand, selected |-> sel2,
     avg_demand_final |->
         Average(SimulateDay(cfg, sch, weather_df, forecast_start, ForecastHours,
                             sel2.target_night,
                             sel2.day_hp_power + sel2.day_boiler_power),
                 weather_df, forecast_start)]

\* pass 2 from the first target_night, the heat pump at capacity
ForecastPass2(cfg, sch, weather_df, forecast_start, avg1, avg_demand) ==
    ForecastPass3(cfg, sch, weather_df, forecast_start, avg1, avg_demand,
                  SelectCase(cfg, avg_demand))

ForecastPass1(cfg, sch, weather_df, forecast_start, avg1) ==
    ForecastPass2(cfg, sch, weather_df, forecast_start, avg1,
                  Average(SimulateDay(cfg, sch, weather_df, forecast_start,
                                      ForecastHours, SelectCase(cfg, avg1).target_night,
                                      Kw(cfg, cfg.heating_system.hp_capacity_kw)),
                          weather_df, forecast_start))

\* the three forecast passes over the hours from forecast_start; pass 1 is at
\* the target temperature
ForecastPasses(cfg, sch, weather_df, forecast_start) ==
    ForecastPass1(cfg, sch, weather_df, forecast_start,
                  Average(SumDemand(cfg, sch, weather_df, forecast_start,
                                    ForecastHours, Deg(cfg, cfg.pool.target_temp)),
                          weather_df, forecast_start))

\* the night target raised without regard to the maximum temperature
TargetNightUnbounded(cfg, passes) ==
    IF /\ passes.selected.case = 2
       /\ passes.avg_demand_final > Kw(cfg, cfg.heating_system.hp_capacity_kw) + Kw(cfg, 5)
    THEN Deg(cfg, cfg.pool.target_temp)
             + (passes.avg_demand_final - Kw(cfg, cfg.heating_system.hp_capacity_kw)) * 10
             + Div(KUnit(cfg), 5)
    ELSE passes.selected.target_night

\* the night target, raised when the final forecast of case 2 exceeds the
\* heat pump by more than 5 kW
TargetNight(cfg, passes) ==
    IF /\ passes.selected.case = 2
       /\ passes.avg_demand_final > Kw(cfg, cfg.heating_system.hp_capacity_kw) + Kw(cfg, 5)
    THEN Min(Deg(cfg, cfg.pool.target_temp)
                 + (passes.avg_demand_final - Kw(cfg, cfg.heating_system.hp_capacity_kw)) * 10
                 + Div(KUnit(cfg), 5),
             Deg(cfg, cfg.pool.max_temp))
    ELSE passes.selected.target_night

\* the mean of the sampled losses
LossesPerHour(losses_sum, sample) ==
    IF losses_sum > 0 THEN Div(losses_sum, sample) ELSE losses_sum

HoursHpNeeded(cfg, T_water, hours_available, target_night, losses_per_hour) ==
    LET hp_capacity == Kw(cfg, cfg.heating_system.hp_capacity_kw)
        temp_rise == Max(0, target_night - T_water)
        energy_for_temp == temp_rise
        net_heating_power == Max(0, hp_capacity - losses_per_hour)
        maintain_energy == losses_per_hour * hours_available
    IN  IF 10 * temp_rise > KUnit(cfg)
        THEN IF net_heating_power > 0
             THEN FracMin(Whole(hours_available),
                          Reduced(Frac(6 * energy_for_temp, 5 * net_heating_power)))
             ELSE Whole(hours_available)
        ELSE IF hp_capacity > 0 THEN Reduced(Frac(maintain_energy, hp_capacity))
             ELSE Whole(hours_available)

TotalEnergyNeeded(cfg, T_water, hours_available, target_night, losses_per_hour, hours_hp_needed, wait_losses) ==
    LET temp_rise == Max(0, target_night - T_water)
        energy_for_temp == temp_rise
        wait_hours == FracMax0(FracSub(Whole(hours_available), hours_hp_needed))
        heating_losses == MulDivN(losses_per_hour, hours_hp_needed.n, hours_hp_needed.d)
    IN  IF 10 * temp_rise > KUnit(cfg)
        THEN IF wait_hours.n > 0
             THEN energy_for_temp + wait_losses + heating_losses
             ELSE energy_for_temp + heating_losses
        ELSE losses_per_hour * hours_available

\* the plan with a start time for the boiler whether or not it is needed
ClosedPlanBoilerAlways(cfg, hours_available, passes, target_night, hours_hp_needed, total_energy_needed) ==
    LET hp_capacity == Kw(cfg, cfg.heating_system.hp_capacity_kw)
        boiler_capacity == Kw(cfg, cfg.heating_system.boiler_capacity_kw)
        hp_energy_available == hp_capacity * hours_available
        hp_sufficient == total_energy_needed <= hp_energy_available
        hours_boiler_needed ==
            Reduced(Frac(total_energy_needed - hp_energy_available, boiler_capacity))
    IN  [case |-> passes.selected.case,
         target_night |-> target_night,
         day_hp_power |-> passes.selected.day_hp_power,
         day_boiler_power |-> passes.selected.day_boiler_power,
         start_hp_in |-> IF hp_sufficient
                         THEN Reduced(FracMax0(FracSub(Whole(hours_available),
                                                       hours_hp_needed)))
                         ELSE Whole(0),
         start_boiler_in |-> IF hp_sufficient THEN Some(Whole(hours_available))
                             ELSE Some(Reduced(FracMax0(
                                      FracSub(Whole(hours_available),
                                              hours_boiler_needed)))),
         night_hp_power |-> hp_capacity,
         night_boiler_power |-> IF hp_sufficient THEN 0 ELSE boiler_capacity,
         hours_to_open |-> hours_available,
         forecast_demand |-> passes.avg_demand,
         energy_needed |-> total_energy_needed]

\* the plan returned, with the start times of the heat pump and of the boiler
ClosedPlan(cfg, hours_available, passes, target_night, hours_hp_needed, total_energy_needed) ==
    LET hp_capacity == Kw(cfg, cfg.heating_system.hp_capacity_kw)
        boiler_capacity == Kw(cfg, cfg.heating_system.boiler_capacity_kw)
        hp_energy_available == hp_capacity * hours_available
        hp_sufficient == total_energy_needed <= hp_energy_available
        hours_boiler_needed ==
            Reduced(Frac(total_energy_needed - hp_energy_available, boiler_capacity))
    IN  [case |-> passes.selected.case,
         target_night |-> target_night,
         day_hp_power |-> passes.selected.day_hp_power,
         day_boiler_power |-> passes.selected.day_boiler_power,
         start_hp_in |-> IF hp_sufficient
                         THEN Reduced(FracMax0(FracSub(Whole(hours_available),
                                                       hours_hp_needed)))
                         ELSE Whole(0),
         start_boiler_in |-> IF hp_sufficient THEN None
                             ELSE Some(Reduced(FracMax0(
                                      FracSub(Whole(hours_available),
                                              hours_boiler_needed)))),
         night_hp_power |-> hp_capacity,
         night_boiler_power |-> IF hp_sufficient THEN 0 ELSE boiler_capacity,
         hours_to_open |-> hours_available,
         forecast_demand |-> passes.avg_demand,
         energy_needed |-> total_energy_needed]

\* the losses while waiting are summed at the present water temperature
PlanStartTimes(cfg, sch, weather_df, current_idx, T_water, hours_to_open, passes, target_night, losses_per_hour, hours_hp_needed) ==
    ClosedPlan(cfg, hours_to_open, passes, target_night, hours_hp_needed,
               TotalEnergyNeeded(cfg, T_water, hours_to_open, target_night,
                                 losses_per_hour, hours_hp_needed,
                                 SumDemand(cfg, sch, weather_df, current_idx,
                                           FracFloor(FracMax0(FracSub(
                                               Whole(hours_to_open), hours_hp_needed))),
                                           T_water)))

PlanHeating(cfg, sch, weather_df, current_idx, T_water, hours_to_open, passes, target_night, losses_per_hour) ==
    PlanStartTimes(cfg, sch, weather_df, current_idx, T_water, hours_to_open, passes,
                   target_night, losses_per_hour,
                   HoursHpNeeded(cfg, T_water, hours_to_open, target_night,
                                 losses_per_hour))

\* the losses are sampled over at most 5 hours at the mean of the present and
\* the target temperature
PlanLosses(cfg, sch, weather_df, current_idx, T_water, hours_to_open, passes, target_night) ==
    PlanHeating(cfg, sch, weather_df, current_idx, T_water, hours_to_open, passes,
                target_night,
                LossesPerHour(SumDemand(cfg, sch, weather_df, current_idx,
                                        Min(hours_to_open, 5),
                                        Div(T_water + target_night, 2)),
                              Min(hours_to_open, 5)))

PlanNight(cfg, sch, weather_df, current_idx, T_water, hours_to_open, passes) ==
    PlanLosses(cfg, sch, weather_df, current_idx, T_water, hours_to_open, passes,
               TargetNight(cfg, passes))

PlanUntilOpening(cfg, sch, weather_df, current_idx, T_water, next_info) ==
    IF IsNone(next_info) THEN None
    ELSE Some(PlanNight(cfg, sch, weather_df, current_idx, T_water,
                        Val(next_info).hours_until,
                        ForecastPasses(cfg, sch, weather_df,
                                       current_idx + Val(next_info).hours_until)))

plan_closed_period(cfg, sch, weather_df, current_idx, T_water, ts) ==
    PlanUntilOpening(cfg, sch, weather_df, current_idx, T_water,
                     get_next_opening_info(sch, ts))

(***************************************************************************)
(* execute_control                                                         *)
(***************************************************************************)
\* Q_delivered taken from the heat pump alone
ControlHpOnly(Q_needed, Q_hp, Q_boiler, Q_delivered, Q_unmet, mode, case, preheat) ==
    [Q_needed |-> Q_needed, Q_hp |-> Q_hp, Q_boiler |-> Q_boiler,
     Q_delivered |-> Q_hp, Q_unmet |-> Q_unmet,
     mode |-> mode, case |-> case, preheat |-> preheat]

Control(Q_needed, Q_hp, Q_boiler, Q_delivered, Q_unmet, mode, case, preheat) ==
    [Q_needed |-> Q_needed, Q_hp |-> Q_hp, Q_boiler |-> Q_boiler,
     Q_delivered |-> Q_delivered, Q_unmet |-> Q_unmet,
     mode |-> mode, case |-> case, preheat |-> preheat]

\* the thermostat with the boiler dispatched before the heat pump
ThermostatBoilerFirst(cfg, T_water, Q_demand, mode) ==
    LET target == Deg(cfg, cfg.pool.target_temp)
        temp_error == target - T_water
        Q_recovery == IF T_water < target THEN Min(temp_error, Kw(cfg, 200)) ELSE 0
        Q_needed == Q_demand + Q_recovery
        Q_boiler == Min(Q_needed, Kw(cfg, cfg.heating_system.boiler_capacity_kw))
        Q_hp == Min(Q_needed - Q_boiler, Kw(cfg, cfg.heating_system.hp_capacity_kw))
    IN  Control(Q_needed, Q_hp, Q_boiler, Q_hp + Q_boiler,
                Max(0, Q_needed - Q_hp - Q_boiler), mode, 0, FALSE)

\* the thermostat of reactive mode and of days without periods
Thermostat(cfg, T_water, Q_demand, mode) ==
    LET target == Deg(cfg, cfg.pool.target_temp)
        temp_error == target - T_water
        \* min(temp_error * thermal_mass_rate, 200)
        Q_recovery == IF T_water < target THEN Min(temp_error, Kw(cfg, 200)) ELSE 0
        Q_needed == Q_demand + Q_recovery
        Q_hp == Min(Q_needed, Kw(cfg, cfg.heating_system.hp_capacity_kw))
        Q_boiler == Min(Q_needed - Q_hp, Kw(cfg, cfg.heating_system.boiler_capacity_kw))
    IN  Control(Q_needed, Q_hp, Q_boiler, Q_hp + Q_boiler,
                Max(0, Q_needed - Q_hp - Q_boiler), mode, 0, FALSE)

\* the transition loop: every transition of this hour, in the order of the list
RECURSIVE FirstPeriodFrom(_, _, _)
FirstPeriodFrom(periods, hour, i) ==
    IF i > Len(periods) THEN None
    ELSE IF periods[i].from = hour THEN Some(periods[i])
    ELSE FirstPeriodFrom(periods, hour, i + 1)

RECURSIVE PlanAtTransitions(_, _, _, _, _, _, _, _, _)
PlanAtTransitions(cfg, sch, weather_df, current_idx, T_water, ts, transitions, i, plans) ==
    IF i > Len(transitions) THEN plans
    ELSE LET transition == transitions[i]
             periods == get_periods(sch, ts.date).val
             period == FirstPeriodFrom(periods, ts.hour, 1)
             next ==
                 IF ts.hour # transition.time THEN plans
                 ELSE IF transition.type = "open"
                 THEN IF IsNone(period) THEN plans
                      ELSE [plans EXCEPT !.open_plan =
                               Some(plan_period_opening(cfg, sch, weather_df, current_idx,
                                                        T_water, Val(period)))]
                 ELSE IF transition.type = "close"
                 THEN [plans EXCEPT !.closed_plan =
                          plan_closed_period(cfg, sch, weather_df, current_idx, T_water, ts)]
                 ELSE plans
         IN  PlanAtTransitions(cfg, sch, weather_df, current_idx, T_water, ts,
                               transitions, i + 1, next)

\* the last period of the list, taken from its end, that has closed by this hour
RECURSIVE LastCloseHour(_, _, _)
LastCloseHour(periods, hour, i) ==
    IF i < 1 THEN None
    ELSE IF periods[i].to <= hour THEN Some(periods[i].to)
    ELSE LastCloseHour(periods, hour, i - 1)

\* (timestamp - plan_time) in hours
HoursSinceClose(ts, periods, yesterday_periods) ==
    IF ~IsNone(LastCloseHour(periods, ts.hour, Len(periods)))
    THEN ts.hour - Val(LastCloseHour(periods, ts.hour, Len(periods)))
    ELSE IF yesterday_periods # <<>>
    THEN ts.hour + 24 - yesterday_periods[Len(yesterday_periods)].to
    ELSE ts.hour

HoursSincePlan(sch, ts) ==
    HoursSinceClose(ts, get_periods(sch, ts.date).val,
                    get_periods(sch, AddDays(ts.date, -1)).val)

\* active and power factor of a unit that starts start_in hours after planning
\* a source taken as active from the hour the plan is made in
ActivationAtOnce(start_in, hours_since_plan) ==
    [active |-> TRUE, factor |-> Whole(1)]

Activation(start_in, hours_since_plan) ==
    LET start_hour == FracFloor(start_in)
    IN  IF hours_since_plan * start_in.d >= start_in.n
        THEN [active |-> TRUE, factor |-> Whole(1)]
        ELSE IF hours_since_plan >= start_hour
        THEN [active |-> TRUE,
              factor |-> Frac(start_in.d - (start_in.n % start_in.d), start_in.d)]
        ELSE [active |-> FALSE, factor |-> Whole(0)]

Inactive == [active |-> FALSE, factor |-> Whole(0)]

ClosedCase(plan) == "closed_case" \o ToString(plan.case)

\* the dispatch of a closed hour hours_since_plan hours after the plan was made
ClosedDispatch(cfg, T_water, Q_demand, plan, hours_since_plan) ==
    LET hours_remaining == plan.hours_to_open - hours_since_plan
        hp == Activation(plan.start_hp_in, hours_since_plan)
        boiler == IF IsNone(plan.start_boiler_in) THEN Inactive
                  ELSE Activation(Val(plan.start_boiler_in), hours_since_plan)
        temp_error == plan.target_night - T_water
        heating == hp.active /\ 10 * temp_error > KUnit(cfg) /\ hours_remaining > 0
        recalc == ~heating /\ hp.active /\ hours_remaining > 0
        still == 20 * temp_error > KUnit(cfg)
        \* energy_needed / hours_remaining, within [0, 400]
        Q_recovery == Max(0, Min(Div(temp_error, hours_remaining), Kw(cfg, 400)))
        Q_needed ==
            IF heating THEN Q_demand + Q_recovery
            ELSE IF recalc /\ still
            THEN Div(temp_error + Q_demand * hours_remaining, hours_remaining)
            ELSE Q_demand
        preheat == heating \/ (recalc /\ still)
        mode ==
            IF heating
            THEN ClosedCase(plan)
                 \o (IF boiler.active THEN "_heat_hp+boiler" ELSE "_heat_hp")
            ELSE IF recalc
            THEN ClosedCase(plan)
                 \o (IF still THEN "_heat_recalc" ELSE "_maintain")
                 \o (IF boiler.active THEN "_hp+boiler" ELSE "")
            ELSE ClosedCase(plan) \o "_wait"
        Q_hp == IF hp.active
                THEN Min(Q_needed, MulDivN(plan.night_hp_power, hp.factor.n, hp.factor.d))
                ELSE Min(Q_demand, Kw(cfg, cfg.heating_system.hp_capacity_kw))
        Q_boiler == IF hp.active /\ boiler.active
                    THEN Min(Q_needed - Q_hp,
                             MulDivN(plan.night_boiler_power,
                                     boiler.factor.n, boiler.factor.d))
                    ELSE 0
    IN  Control(Q_needed, Q_hp, Q_boiler, Q_hp + Q_boiler,
                Max(0, Q_needed - (Q_hp + Q_boiler)), mode, plan.case, preheat)

ClosedControl(cfg, sch, ts, T_water, Q_demand, plan) ==
    ClosedDispatch(cfg, T_water, Q_demand, plan, HoursSincePlan(sch, ts))

\* the open dispatch without the capacity limits
OpenControlUnlimited(cfg, Q_demand, plan) ==
    LET Q_hp == plan.hp_rate_day
        Q_boiler == plan.boiler_rate_day
    IN  Control(Q_demand, Q_hp, Q_boiler, Q_hp + Q_boiler,
                Max(0, Q_demand - (Q_hp + Q_boiler)),
                "open_case" \o ToString(plan.case)
                    \o (IF Q_boiler > 0 THEN "_hp+boiler" ELSE "_hp"),
                plan.case, FALSE)

OpenControl(cfg, Q_demand, plan) ==
    LET Q_hp == Min(plan.hp_rate_day, Kw(cfg, cfg.heating_system.hp_capacity_kw))
        Q_boiler == Min(plan.boiler_rate_day,
                        Kw(cfg, cfg.heating_system.boiler_capacity_kw))
    IN  Control(Q_demand, Q_hp, Q_boiler, Q_hp + Q_boiler,
                Max(0, Q_demand - (Q_hp + Q_boiler)),
                "open_case" \o ToString(plan.case)
                    \o (IF Q_boiler > 0 THEN "_hp+boiler" ELSE "_hp"),
                plan.case, FALSE)

\* the hour without plan with the boiler covering what the heat pump cannot
NoPlanControlWithBoiler(cfg, Q_demand) ==
    LET Q_hp == Min(Q_demand, Kw(cfg, cfg.heating_system.hp_capacity_kw))
        Q_boiler == Max(0, Min(Q_demand - Q_hp,
                               Kw(cfg, cfg.heating_system.boiler_capacity_kw)))
    IN  Control(Q_demand, Q_hp, Q_boiler, Q_hp + Q_boiler,
                Max(0, Q_demand - (Q_hp + Q_boiler)), "closed_no_plan", 0, FALSE)

NoPlanControl(cfg, Q_demand) ==
    LET Q_hp == Min(Q_demand, Kw(cfg, cfg.heating_system.hp_capacity_kw))
    IN  Control(Q_demand, Q_hp, 0, Q_hp + 0, Max(0, Q_demand - (Q_hp + 0)),
                "closed_no_plan", 0, FALSE)

\* an open hour: the plan made at the transition, or made now if there is none
OpenHour(cfg, Q_demand, planned, plan_open) ==
    [control |-> OpenControl(cfg, Q_demand, Val(plan_open)),
     plans |-> [planned EXCEPT !.open_plan = plan_open]]

\* a closed hour, likewise
ClosedHour(cfg, sch, ts, T_water, Q_demand, planned, plan_closed) ==
    [control |-> IF IsNone(plan_closed) THEN NoPlanControl(cfg, Q_demand)
                 ELSE ClosedControl(cfg, sch, ts, T_water, Q_demand, Val(plan_closed)),
     plans |-> [planned EXCEPT !.closed_plan = plan_closed]]

\* the plans made anew in every hour
PlannedControlReplanning(cfg, sch, weather_df, current_idx, T_water, ts, Q_demand, current_period_info, planned) ==
    IF ~IsNone(current_period_info)
    THEN OpenHour(cfg, Q_demand, planned,
                  Some(plan_period_opening(cfg, sch, weather_df, current_idx, T_water,
                                           Val(current_period_info).period)))
    ELSE ClosedHour(cfg, sch, ts, T_water, Q_demand, planned,
                    plan_closed_period(cfg, sch, weather_df, current_idx, T_water, ts))

PlannedControl(cfg, sch, weather_df, current_idx, T_water, ts, Q_demand, current_period_info, planned) ==
    IF ~IsNone(current_period_info)
    THEN OpenHour(cfg, Q_demand, planned,
                  IF IsNone(planned.open_plan)
                  THEN Some(plan_period_opening(cfg, sch, weather_df, current_idx,
                                                T_water,
                                                Val(current_period_info).period))
                  ELSE planned.open_plan)
    ELSE ClosedHour(cfg, sch, ts, T_water, Q_demand, planned,
                    IF IsNone(planned.closed_plan)
                    THEN plan_closed_period(cfg, sch, weather_df, current_idx,
                                            T_water, ts)
                    ELSE planned.closed_plan)

\* days without periods dropping the plans made before
ModeControlDroppingPlans(cfg, sch, weather_df, current_idx, T_water, ts, plans, Q_demand, periods) ==
    IF cfg.control.mode = "reactive"
    THEN [control |-> Thermostat(cfg, T_water, Q_demand, "reactive"),
          plans |-> plans]
    ELSE IF periods = <<>>
    THEN [control |-> Thermostat(cfg, T_water, Q_demand, "no_periods"),
          plans |-> [open_plan |-> None, closed_plan |-> None]]
    ELSE PlannedControl(cfg, sch, weather_df, current_idx, T_water, ts, Q_demand,
                        get_current_period_info(ts, periods),
                        PlanAtTransitions(cfg, sch, weather_df, current_idx, T_water,
                                          ts, get_daily_transitions(sch, ts.date).val,
                                          1, plans))

ModeControl(cfg, sch, weather_df, current_idx, T_water, ts, plans, Q_demand, periods) ==
    IF cfg.control.mode = "reactive"
    THEN [control |-> Thermostat(cfg, T_water, Q_demand, "reactive"),
          plans |-> plans]
    ELSE IF periods = <<>>
    THEN [control |-> Thermostat(cfg, T_water, Q_demand, "no_periods"),
          plans |-> plans]
    ELSE PlannedControl(cfg, sch, weather_df, current_idx, T_water, ts, Q_demand,
                        get_current_period_info(ts, periods),
                        PlanAtTransitions(cfg, sch, weather_df, current_idx, T_water,
                                          ts, get_daily_transitions(sch, ts.date).val,
                                          1, plans))

\* the record returned, with the two plans as the call leaves them
execute_control(cfg, sch, weather_df, current_idx, T_water, ts, plans) ==
    ModeControl(cfg, sch, weather_df, current_idx, T_water, ts, plans,
                calculate_heat_demand(cfg, sch, T_water,
                                      RowAt(weather_df, current_idx), ts).Q_total,
                get_periods(sch, ts.date).val)

(***************************************************************************)
(* The state of a simulation                                               *)
(***************************************************************************)
VARIABLES
    config,     \* the simulator's configuration (self.config)
    weather_df, \* the weather table of the run: start, rows, len
    idx,        \* simulate_year: the index of the row the loop is at
    T_water,    \* simulate_year: the water temperature carried to that row
    open_plan,  \* self.open_plan, None while the attribute is missing or None
    closed_plan,\* self.closed_plan, likewise
    results     \* simulate_year: the row appended to results last

simvars == <<config, weather_df, idx, T_water, open_plan, closed_plan, results>>

(***************************************************************************)
(* The state of the database connections: the DatabaseConnection object a  *)
(* caller holds ("given") and the one a PoolSchedulerDB makes for itself   *)
(* ("own"), the connections the server has handed out, and the scheduler   *)
(* object that uses one of the two                                         *)
(***************************************************************************)
VARIABLES
    _connection,\* DatabaseConnection._connection of each object: None or a connection
    server,     \* the connections opened so far and the state of each
    cursors,    \* the cursors opened and closed so far
    scheduler,  \* the PoolSchedulerDB object: its db and _owns_db, None if there is none
    with_block, \* where the caller is relative to 'with scheduler:'
    db_call     \* the last call on a connection or on the scheduler

dbvars == <<_connection, server, cursors, scheduler, with_block, db_call>>

vars == <<database, sched, loaded, now, call, res, simvars, dbvars>>

(***************************************************************************)
(* Configurations and weather of the simulated runs                        *)
(***************************************************************************)
Config(volume, hp, boiler, mode, cover, new_water, connected) ==
    [pool |-> [volume_m3 |-> volume, target_temp |-> 28,
               min_temp |-> 26, max_temp |-> 29],
     operation |-> [cover |-> [enabled |-> cover, solar_transmittance_pct |-> 10,
                               u_value_w_m2_k |-> 5]],
     weather |-> [wind_factor_pct |-> 75],
     new_water |-> [enabled |-> new_water, bathers_per_day |-> 200,
                    pool_refill |-> [liters_per_bather |-> 30, cold_water_temp |-> 5],
                    shower |-> [liters_per_bather |-> 60, target_temp |-> 40,
                                hot_water_temp |-> 70, hp_max_temp |-> 35,
                                connected_to_pool_system |-> connected]],
     heating_system |-> [hp_capacity_kw |-> hp, boiler_capacity_kw |-> boiler],
     control |-> [mode |-> mode]]

DEFAULT_CONFIG == Config(625, 200, 200, "predictive", TRUE, TRUE, FALSE)

Configs ==
    { DEFAULT_CONFIG,
      Config(625, 100, 200, "predictive", TRUE, FALSE, FALSE),
      Config(100, 100, 200, "predictive", FALSE, TRUE, TRUE),
      Config(100, 100, 200, "predictive", TRUE, FALSE, FALSE),
      Config(625, 100, 200, "reactive", TRUE, FALSE, FALSE) }

\* weather rows: kW at the target temperature, uncovered 50, 110, 250, 350 and
\* -25, covered 20, 40, 90, 150 and 9
Mild == Row(30, 10, 5, 15, 3, 2, 0, 0, 2)
Cold == Row(70, 20, 10, 30, 6, 4, 0, 10, 3)
Frost == Row(160, 50, 25, 75, 10, 5, 0, 0, 1)
Storm == Row(230, 70, 30, 130, 12, 8, 0, 0, 12)
Sunny == Row(20, 5, 5, 10, 3, 2, 60, 5, 0)

NumHours == 48

NumBlocks == (NumHours + BlockHours - 1) \div BlockHours

\* the weather of the first block and of the blocks after it
Weathers ==
    { <<l, l>> : l \in {Mild, Cold, Frost, Storm, Sunny} }
    \cup { <<Mild, Storm>>, <<Frost, Mild>>, <<Sunny, Cold>>, <<Mild, Frost>> }

\* a site's schedule database and the first day of its weather table
SimSetups ==
    { [db |-> Database(Some(4), DaySchedules, <<>>, <<>>, NoHolidays),
       start |-> Date(2024, 1, 1)],
      [db |-> Database(Some(1), DaySchedules, <<>>, <<>>, NoHolidays),
       start |-> Date(2024, 1, 5)],
      [db |-> Database(Some(5), DaySchedules, <<>>, <<>>, NoHolidays),
       start |-> Date(2024, 1, 1)],
      [db |-> Database(Some(3), DaySchedules, <<>>, SubSeq(ExceptionRows, 3, 3),
                       NoHolidays),
       start |-> Date(2024, 4, 1)],
      [db |-> Database(Some(4), DaySchedules, <<>>, SubSeq(ExceptionRows, 1, 1),
                       NoHolidays),
       start |-> Date(2024, 12, 24)] }

DbObjects == {"given", "own"}

DbCall(seq, op, obj, raised, val) ==
    [seq |-> seq, op |-> op, obj |-> obj, raised |-> raised, val |-> val]

\* no connection has been opened and there is no scheduler on a connection
NoConnections ==
    /\ _connection = [o \in DbObjects |-> None]
    /\ server = <<>>
    /\ cursors = [opened |-> 0, closed |-> 0]
    /\ scheduler = None
    /\ with_block = "none"
    /\ db_call = DbCall(0, "idle", "given", FALSE, None)

\* no simulation is running
NoSimulation ==
    /\ config = DEFAULT_CONFIG
    /\ weather_df = [start |-> Date(2024, 1, 1), rows |-> <<>>, len |-> 0]
    /\ idx = 0
    /\ T_water = Deg(config, config.pool.target_temp)
    /\ open_plan = None
    /\ closed_plan = None
    /\ results = None

(***************************************************************************)
(* Queries on the scheduler: a caller walks its clock forward from one of  *)
(* the start dates and queries the scheduler for the clock's date and      *)
(* hour, one query at a time                                               *)
(***************************************************************************)
NumQueryDays == 30
StartDates == { Date(2024, 3, 15), Date(2024, 6, 10), Date(2024, 12, 15) }

MonthDays == { <<12, 20>>, <<1, 5>>, <<6, 25>>, <<12, 25>> }
RangeInputs ==
    { [start_month |-> a[1], start_day |-> a[2], end_month |-> b[1], end_day |-> b[2],
       is_recurring |-> r] : a \in MonthDays, b \in MonthDays, r \in BOOLEAN }
NoRange == [start_month |-> 1, start_day |-> 1, end_month |-> 1, end_day |-> 1,
            is_recurring |-> FALSE]

Call(op, date, hour, range) == [op |-> op, date |-> date, hour |-> hour, range |-> range]

\* the constructor either raises or leaves a scheduler; a caller whose
\* constructor raised has no scheduler to query
SchedInit ==
    /\ database \in Databases
    /\ sched = PoolSchedulerDB(database).val
    /\ loaded = sched
    /\ \E d \in StartDates : now = [date |-> d, hour |-> 0, day |-> 1]
    /\ call = Call(IF PoolSchedulerDB(database).raised THEN "__init__" ELSE "idle",
                   now.date, now.hour, NoRange)
    /\ res = IF PoolSchedulerDB(database).raised THEN Raise ELSE Ok(None)
    /\ NoSimulation
    /\ NoConnections

\* the caller has its answer and looks at the clock again
Idle == call.op = "idle"

Constructed == call.op # "__init__"

AdvanceHour ==
    /\ Constructed
    /\ now.hour < 23
    /\ now' = [now EXCEPT !.hour = now.hour + 1]
    /\ call' = Call("idle", now'.date, now'.hour, NoRange)
    /\ res' = Ok(None)
    /\ UNCHANGED <<simvars, dbvars, sched, database, loaded>>

AdvanceDay ==
    /\ Constructed
    /\ now.hour = 23
    /\ now.day < NumQueryDays
    /\ now' = [date |-> AddDays(now.date, 1), hour |-> 0, day |-> now.day + 1]
    /\ call' = Call("idle", now'.date, now'.hour, NoRange)
    /\ res' = Ok(None)
    /\ UNCHANGED <<simvars, dbvars, sched, database, loaded>>

\* every query reads the scheduler and assigns nothing to it
GetScheduleForDate ==
    /\ Idle
    /\ call' = Call("get_schedule_for_date", now.date, now.hour, NoRange)
    /\ res' = get_schedule_for_date(sched, now.date)
    /\ UNCHANGED <<simvars, dbvars, sched, database, loaded, now>>

GetPeriods ==
    /\ Idle
    /\ call' = Call("get_periods", now.date, now.hour, NoRange)
    /\ res' = get_periods(sched, now.date)
    /\ UNCHANGED <<simvars, dbvars, sched, database, loaded, now>>

IsOpen ==
    /\ Idle
    /\ call' = Call("is_open", now.date, now.hour, NoRange)
    /\ res' = is_open(sched, now.date, now.hour)
    /\ UNCHANGED <<simvars, dbvars, sched, database, loaded, now>>

GetCurrentPeriod ==
    /\ Idle
    /\ call' = Call("get_current_period", now.date, now.hour, NoRange)
    /\ res' = get_current_period(sched, now.date, now.hour)
    /\ UNCHANGED <<simvars, dbvars, sched, database, loaded, now>>

\* the date's period list sorted in place while the transitions are built
RECURSIVE InsertByFrom(_, _)
InsertByFrom(sorted, p) ==
    IF sorted = <<>> THEN <<p>>
    ELSE IF p.from < Head(sorted).from THEN <<p>> \o sorted
    ELSE <<Head(sorted)>> \o InsertByFrom(Tail(sorted), p)

RECURSIVE SortByFrom(_)
SortByFrom(ps) ==
    IF ps = <<>> THEN <<>>
    ELSE InsertByFrom(SortByFrom(SubSeq(ps, 1, Len(ps) - 1)), ps[Len(ps)])

SortPeriodsOf(s, date) ==
    LET name == get_schedule_for_date(s, date).val
    IN  [s EXCEPT !.schedules =
            [i \in 1..Len(s.schedules) |->
                IF Some(s.schedules[i].name) = name
                THEN [s.schedules[i] EXCEPT !.periods = SortByFrom(@)]
                ELSE s.schedules[i]]]

GetDailyTransitionsInPlace ==
    /\ Idle
    /\ call' = Call("get_daily_transitions", now.date, now.hour, NoRange)
    /\ res' = get_daily_transitions(sched, now.date)
    /\ sched' = IF res'.raised THEN sched ELSE SortPeriodsOf(sched, now.date)
    /\ UNCHANGED <<simvars, dbvars, database, loaded, now>>

GetDailyTransitions ==
    /\ Idle
    /\ call' = Call("get_daily_transitions", now.date, now.hour, NoRange)
    /\ res' = get_daily_transitions(sched, now.date)
    /\ UNCHANGED <<simvars, dbvars, sched, database, loaded, now>>

FindNextOpening ==
    /\ Idle
    /\ call' = Call("find_next_opening", now.date, now.hour, NoRange)
    /\ res' = find_next_opening(sched, now.date, now.hour)
    /\ UNCHANGED <<simvars, dbvars, sched, database, loaded, now>>

DateInRange(range) ==
    /\ Idle
    /\ now.hour = 0
    /\ call' = Call("_date_in_range", now.date, now.hour, range)
    /\ res' = Ok(_date_in_range(now.date, range))
    /\ UNCHANGED <<simvars, dbvars, sched, database, loaded, now>>

SchedNext ==
    \/ AdvanceHour
    \/ AdvanceDay
    \/ GetScheduleForDate
    \/ GetPeriods
    \/ IsOpen
    \/ GetCurrentPeriod
    \/ GetDailyTransitions
    \/ FindNextOpening
    \/ \E range \in RangeInputs : DateInRange(range)

SpecSched == SchedInit /\ [][SchedNext]_vars

(***************************************************************************)
(* Easter: a caller asks the scheduler of a site with the two moving       *)
(* exception days for the Easter date of a year, with and without the      *)
(* year's row in holiday_reference_days, or for the exception day of a     *)
(* date of the reference year                                              *)
(***************************************************************************)
FirstYear == 1900
LastYear == 2099
ReferenceYear == 2024

EasterDatabases ==
    { Database(Some(1), DaySchedules, <<>>, SubSeq(ExceptionRows, 2, 3), NoHolidays),
      Database(Some(1), DaySchedules, <<>>, SubSeq(ExceptionRows, 2, 3),
               (ReferenceYear :> Date(ReferenceYear, 3, 31))) }

EasterInit ==
    /\ database \in EasterDatabases
    /\ sched = LoadScheduler(database)
    /\ loaded = sched
    /\ now = [date |-> Date(ReferenceYear, 1, 1), hour |-> 0, day |-> 1]
    /\ call = Call("idle", now.date, now.hour, NoRange)
    /\ res = Ok(None)
    /\ NoSimulation
    /\ NoConnections

GetEasterDate ==
    \E year \in FirstYear..LastYear :
        /\ Idle
        /\ call' = Call("_get_easter_date", Date(year, 1, 1), 0, NoRange)
        /\ res' = Ok(Some(_get_easter_date(sched, year)))
        /\ UNCHANGED <<database, sched, loaded, now, simvars, dbvars>>

CheckExceptionDays ==
    \E k \in 0..(DaysBeforeYear(ReferenceYear + 1) - DaysBeforeYear(ReferenceYear) - 1) :
        /\ Idle
        /\ call' = Call("_check_exception_days",
                        AddDays(Date(ReferenceYear, 1, 1), k), 0, NoRange)
        /\ res' = Ok(_check_exception_days(sched, call'.date))
        /\ UNCHANGED <<database, sched, loaded, now, simvars, dbvars>>

EasterNext ==
    \/ GetEasterDate
    \/ CheckExceptionDays

SpecEaster == EasterInit /\ [][EasterNext]_vars

(***************************************************************************)
(* simulate_year: one pass of the loop body per hour of the weather table  *)
(***************************************************************************)
SimInit ==
    /\ \E setup \in SimSetups :
          /\ database = setup.db
          /\ sched = LoadScheduler(setup.db)
          /\ \E w \in Weathers :
                weather_df = [start |-> setup.start,
                              rows |-> [b \in 1..NumBlocks |-> IF b = 1 THEN w[1] ELSE w[2]],
                              len |-> NumHours]
    /\ loaded = sched
    /\ now = [date |-> weather_df.start, hour |-> 0, day |-> 1]
    /\ call = Call("idle", now.date, now.hour, NoRange)
    /\ res = Ok(None)
    /\ config \in Configs
    /\ idx = 0
    /\ T_water = Deg(config, config.pool.target_temp)
    /\ open_plan = None
    /\ closed_plan = None
    /\ results = None
    /\ NoConnections

\* the upper limit left out
ClampWaterBelow(cfg, T_water_new) ==
    Max(Deg(cfg, cfg.pool.min_temp) - Deg(cfg, 1), T_water_new)

ClampWater(cfg, T_water_new) ==
    Max(Deg(cfg, cfg.pool.min_temp) - Deg(cfg, 1),
        Min(Deg(cfg, cfg.pool.max_temp), T_water_new))

\* the loop body, the control and the demand of the hour given
RecordHour(timestamp, executed, demand) ==
    /\ open_plan' = executed.plans.open_plan
    /\ closed_plan' = executed.plans.closed_plan
    \* dT = Q_net * dt * 1000 / (volume_m3 * 1000 * 4186)
    /\ T_water' = ClampWater(config, T_water + (executed.control.Q_delivered
                                                  - demand.Q_total))
    /\ results' = Some([timestamp |-> timestamp, idx |-> idx,
                        water_temp |-> T_water',
                        demand |-> demand, control |-> executed.control])

SimulateHour ==
    /\ idx < weather_df.len
    /\ RecordHour(TimestampAt(weather_df, idx),
                  execute_control(config, sched, weather_df, idx, T_water,
                                  TimestampAt(weather_df, idx),
                                  [open_plan |-> open_plan,
                                   closed_plan |-> closed_plan]),
                  calculate_heat_demand(config, sched, T_water,
                                        RowAt(weather_df, idx),
                                        TimestampAt(weather_df, idx)))
    /\ idx' = idx + 1
    /\ UNCHANGED <<config, weather_df, sched, database, loaded, now, call, res, dbvars>>

SimNext == SimulateHour

SpecSim == SimInit /\ [][SimNext]_vars

(***************************************************************************)
(* DatabaseConnection, and the PoolSchedulerDB that runs on one: a caller  *)
(* holds a DatabaseConnection, constructs a scheduler with or without it,  *)
(* uses the scheduler in a with-block or closes it by hand, and calls      *)
(* connect, execute and close on the connection objects; the server may    *)
(* drop a connection at any time                                           *)
(***************************************************************************)
MaxConnections == 3
MaxCalls == 5

DbState == [_connection |-> _connection, server |-> server, cursors |-> cursors]

\* self._connection is not None and self._connection.is_connected()
is_connected(st, obj) ==
    ~IsNone(st._connection[obj]) /\ st.server[Val(st._connection[obj])] = "connected"

\* the connection object, the connections and the cursors as the call leaves
\* them; reachable: whether mysql.connector.connect succeeds
connect(st, obj, reachable) ==
    IF is_connected(st, obj)
    THEN [raised |-> FALSE, val |-> st._connection[obj], st |-> st]
    ELSE IF ~reachable THEN [raised |-> TRUE, val |-> None, st |-> st]
    ELSE [raised |-> FALSE, val |-> Some(Len(st.server) + 1),
          st |-> [st EXCEPT !._connection[obj] = Some(Len(st.server) + 1),
                            !.server = Append(@, "connected")]]

close(st, obj) ==
    IF is_connected(st, obj)
    THEN [st EXCEPT !.server[Val(st._connection[obj])] = "closed",
                    !._connection[obj] = None]
    ELSE st

\* the cursor opened on the connection, and closed in the finally clause
CursorUsed(st) ==
    [st EXCEPT !.cursors = [opened |-> @.opened + 1, closed |-> @.closed + 1]]

\* answered: whether cursor.execute returns or raises
execute(st, obj, reachable, answered) ==
    IF connect(st, obj, reachable).raised
    THEN [raised |-> TRUE, st |-> connect(st, obj, reachable).st]
    ELSE [raised |-> ~answered, st |-> CursorUsed(connect(st, obj, reachable).st)]

\* self.db = db or DatabaseConnection(); self._owns_db = db is None
SchedulerOn(db) ==
    [db |-> IF IsNone(db) THEN "own" ELSE Val(db), _owns_db |-> IsNone(db)]

\* the connection closed whoever made it
PoolSchedulerDB_close_any(st, s) ==
    close(st, s.db)

PoolSchedulerDB_close(st, s) ==
    IF s._owns_db THEN close(st, s.db) ELSE st

DbInit ==
    /\ database = Database(Some(1), DaySchedules, <<>>, <<>>, NoHolidays)
    /\ sched = LoadScheduler(database)
    /\ loaded = sched
    /\ now = [date |-> Date(ReferenceYear, 1, 1), hour |-> 0, day |-> 1]
    /\ call = Call("idle", now.date, now.hour, NoRange)
    /\ res = Ok(None)
    /\ NoSimulation
    /\ NoConnections

CanCall == db_call.seq < MaxCalls

\* the server accepts no more than MaxConnections connections
Reachables == IF Len(server) < MaxConnections THEN BOOLEAN ELSE {FALSE}

\* the connection objects the caller can reach: its own, and scheduler.db
Objects ==
    {"given"} \cup (IF ~IsNone(scheduler) /\ Val(scheduler)._owns_db THEN {"own"} ELSE {})

Leaves(st) ==
    /\ _connection' = st._connection
    /\ server' = st.server
    /\ cursors' = st.cursors

Called(op, obj, raised, val) ==
    db_call' = DbCall(db_call.seq + 1, op, obj, raised, val)

Elsewhere == UNCHANGED <<database, sched, loaded, now, call, res, simvars>>

\* the constructor with its loading queries; a constructor that raises
\* leaves no scheduler
Constructing(s, loading) ==
    /\ Leaves(loading.st)
    /\ scheduler' = IF loading.raised THEN None ELSE Some(s)
    /\ Called("__init__", s.db, loading.raised, None)
    /\ UNCHANGED with_block
    /\ Elsewhere

Construct ==
    \E db \in {None, Some("given")}, reachable \in Reachables, answered \in BOOLEAN :
        /\ CanCall
        /\ IsNone(scheduler)
        /\ Constructing(SchedulerOn(db),
                        execute(IF IsNone(db)
                                THEN [DbState EXCEPT !._connection["own"] = None]
                                ELSE DbState,
                                SchedulerOn(db).db, reachable, answered))

Enter ==
    /\ CanCall
    /\ ~IsNone(scheduler)
    /\ with_block = "none"
    /\ with_block' = "inside"
    /\ Called("__enter__", Val(scheduler).db, FALSE, None)
    /\ UNCHANGED <<_connection, server, cursors, scheduler>>
    /\ Elsewhere

\* the block left at its end or by an exception, which __exit__ lets pass
Exit ==
    \E exception \in BOOLEAN :
        /\ CanCall
        /\ with_block = "inside"
        /\ Leaves(PoolSchedulerDB_close(DbState, Val(scheduler)))
        /\ with_block' = "left"
        /\ Called("__exit__", Val(scheduler).db, exception, None)
        /\ UNCHANGED scheduler
        /\ Elsewhere

SchedulerClose ==
    /\ CanCall
    /\ ~IsNone(scheduler)
    /\ Leaves(PoolSchedulerDB_close(DbState, Val(scheduler)))
    /\ Called("scheduler.close", Val(scheduler).db, FALSE, None)
    /\ UNCHANGED <<scheduler, with_block>>
    /\ Elsewhere

Connecting(obj, connected) ==
    /\ Leaves(connected.st)
    /\ Called("connect", obj, connected.raised, connected.val)
    /\ UNCHANGED <<scheduler, with_block>>
    /\ Elsewhere

Connect ==
    \E obj \in Objects, reachable \in Reachables :
        /\ CanCall
        /\ Connecting(obj, connect(DbState, obj, reachable))

Executing(obj, executed) ==
    /\ Leaves(executed.st)
    /\ Called("execute", obj, executed.raised, None)
    /\ UNCHANGED <<scheduler, with_block>>
    /\ Elsewhere

Execute ==
    \E obj \in Objects, reachable \in Reachables, answered \in BOOLEAN :
        /\ CanCall
        /\ Executing(obj, execute(DbState, obj, reachable, answered))

Close ==
    \E obj \in Objects :
        /\ CanCall
        /\ Leaves(close(DbState, obj))
        /\ Called("close", obj, FALSE, None)
        /\ UNCHANGED <<scheduler, with_block>>
        /\ Elsewhere

\* the server drops a connection: is_connected() is false from now on
ConnectionLost ==
    \E id \in 1..Len(server) :
        /\ server[id] = "connected"
        /\ server' = [server EXCEPT ![id] = "lost"]
        /\ UNCHANGED <<_connection, cursors, scheduler, with_block, db_call>>
        /\ Elsewhere

DbNext ==
    \/ Construct
    \/ Enter
    \/ Exit
    \/ SchedulerClose
    \/ Connect
    \/ Execute
    \/ Close
    \/ ConnectionLost

SpecDb == DbInit /\ [][DbNext]_vars


(***************************************************************************)
(* Properties of the schedule resolver                                     *)
(***************************************************************************)
MonthDay(m, d) == 100 * m + d

\* an exception day falls on the date: its fixed (month, day), or Easter plus its offset
ExceptionFallsOn(exc, date) ==
    IF exc.is_moving
    THEN ToOrdinal(date) =
            ToOrdinal(_get_easter_date(sched, date.year)) + Val(exc.easter_offset)
    ELSE MonthDay(date.month, date.day) = MonthDay(Val(exc.fixed_month), Val(exc.fixed_day))

\* the (month, day) window of a range, year-crossing when it starts after it ends
InWindow(r, date) ==
    LET from_md == MonthDay(r.start_month, r.start_day)
        to_md == MonthDay(r.end_month, r.end_day)
        cur == MonthDay(date.month, date.day)
    IN  IF from_md > to_md THEN cur >= from_md \/ cur <= to_md
        ELSE from_md <= cur /\ cur <= to_md

ExceptionsOn(date) ==
    { i \in 1..Len(sched.exception_days) : ExceptionFallsOn(sched.exception_days[i], date) }

\* the recurring programs whose window holds the date and whose week pattern
\* names a schedule for the date's weekday
ProgramsOn(date) ==
    { i \in 1..Len(sched.date_ranges) :
        /\ sched.date_ranges[i].is_recurring
        /\ InWindow(sched.date_ranges[i], date)
        /\ sched.date_ranges[i].week_schedule_id \in DOMAIN sched.week_schedules
        /\ ~IsNone(sched.week_schedules[sched.date_ranges[i].week_schedule_id]
                                       [Weekday(date) + 1]) }

\* C4: a date on which an exception day and a date-range program both fall gets the
\* exception day's schedule; a date in a program's window on which no exception
\* falls gets the schedule the program's week pattern names for its weekday.
C4_ExceptionWins ==
    (call.op = "get_schedule_for_date") =>
        /\ (ExceptionsOn(call.date) # {}) =>
              /\ ~res.raised
              /\ \E i \in ExceptionsOn(call.date) :
                    res.val = sched.exception_days[i].day_schedule_name
        /\ (ExceptionsOn(call.date) = {} /\ ProgramsOn(call.date) # {}) =>
              /\ ~res.raised
              /\ \E i \in ProgramsOn(call.date) :
                    res.val = sched.week_schedules
                                 [sched.date_ranges[i].week_schedule_id]
                                 [Weekday(call.date) + 1]

\* Christmas Day 2024 lies in the Dec 20 - Jan 5 program and is an exception day
C4_Witness ==
    /\ call.op = "get_schedule_for_date"
    /\ call.date = Date(2024, 12, 25)
    /\ ExceptionsOn(call.date) # {}
    /\ ProgramsOn(call.date) # {}
    /\ res = Ok(Some("Closed"))

\* C5: for a recurring range, _date_in_range is true exactly for the dates of the
\* window: start <= (month, day) <= end when start <= end, and (month, day) >= start
\* or (month, day) <= end when start > end; Dec 20 - Jan 5 holds Dec 25 and Jan 2
\* and does not hold Jan 10.
C5_DateInRange ==
    (call.op = "_date_in_range" /\ call.range.is_recurring) =>
        /\ res.val = InWindow(call.range, call.date)
        /\ (MonthDay(call.range.start_month, call.range.start_day) = 1220
            /\ MonthDay(call.range.end_month, call.range.end_day) = 105) =>
              /\ (MonthDay(call.date.month, call.date.day) \in {1225, 102}) => res.val
              /\ (MonthDay(call.date.month, call.date.day) = 110) => ~res.val

C5_Witness ==
    /\ call.op = "_date_in_range"
    /\ call.range.is_recurring
    /\ MonthDay(call.range.start_month, call.range.start_day) = 1220
    /\ MonthDay(call.range.end_month, call.range.end_day) = 105
    /\ call.date = Date(2025, 1, 2)
    /\ res.val = TRUE

\* a period holds hour h: from <= h < to, or h >= from or h < to when it is overnight
Holds(period, h) ==
    IF period.from >= period.to THEN h >= period.from \/ h < period.to
    ELSE period.from <= h /\ h < period.to

PeriodsOn(date) == get_periods(loaded, date)

\* C6: is_open and get_current_period report open exactly when some period of the
\* date's schedule holds the hour.
C6_OpenIffPeriodHolds ==
    (call.op \in {"is_open", "get_current_period"}) =>
        /\ res.raised = PeriodsOn(call.date).raised
        /\ ~res.raised =>
              LET open == IF call.op = "is_open" THEN res.val ELSE ~IsNone(res.val)
                  periods == PeriodsOn(call.date).val
              IN  open = (\E i \in 1..Len(periods) : Holds(periods[i], call.hour))

\* an overnight period 22-6 is open at 3 in the morning
C6_Witness ==
    /\ call.op = "is_open"
    /\ call.hour = 3
    /\ PeriodsOn(call.date) = Ok(<<Period(22, 6)>>)
    /\ res = Ok(TRUE)

\* C7: whatever queries were made before it, get_periods returns for a date what the
\* configuration loaded by the constructor gives for that date.
C7_GetPeriodsPure ==
    (call.op = "get_periods") => res = get_periods(loaded, call.date)

\* a second day of the two-period schedule, after the queries of the first
C7_Witness ==
    /\ call.op = "get_periods"
    /\ now.day > 7
    /\ ~res.raised
    /\ Len(res.val) = 2

\* the openings of the lookahead: <<days ahead, hour>> of every period start that
\* is after the hour on the date itself or on one of the following 30 dates
OpeningsAhead(date, hour) ==
    UNION { LET periods == PeriodsOn(AddDays(date, k))
            IN  IF periods.raised THEN {}
                ELSE { <<k, periods.val[i].from>> : i \in
                         { j \in 1..Len(periods.val) :
                             (k = 0) => periods.val[j].from > hour } }
            : k \in 0..LookaheadDays }

Earlier(a, b) == a[1] < b[1] \/ (a[1] = b[1] /\ a[2] <= b[2])

\* C10: find_next_opening returns the earliest opening after the hour within the
\* date and the 30 dates after it, and (None, None) exactly when there is none.
C10_NextOpeningEarliest ==
    (call.op = "find_next_opening" /\ ~res.raised) =>
        LET ahead == OpeningsAhead(call.date, call.hour)
        IN  /\ IsNone(res.val) = (ahead = {})
            /\ ~IsNone(res.val) =>
                  LET found == << ToOrdinal(Val(res.val).date) - ToOrdinal(call.date),
                                  Val(res.val).hour >>
                  IN  /\ found \in ahead
                      /\ \A kh \in ahead : Earlier(found, kh)
                      /\ found[1] > 0 \/ found[2] > call.hour

\* asked on a Saturday at 20:00, after the day's last period: the answer is Sunday
\* 8:00, the earlier of the two periods kept in the order 15-20, 8-12
C10_Witness ==
    /\ call.op = "find_next_opening"
    /\ Weekday(call.date) = 5
    /\ call.hour = 20
    /\ ~res.raised /\ ~IsNone(res.val)
    /\ Val(res.val).date = AddDays(call.date, 1)
    /\ Val(res.val).hour = 8

\* the loaded programs, recurring or not, whose (month, day) window holds the date
\* and whose week pattern names a schedule for the date's weekday
WindowProgramsOn(date) ==
    { i \in 1..Len(sched.date_ranges) :
        /\ InWindow(sched.date_ranges[i], date)
        /\ sched.date_ranges[i].week_schedule_id \in DOMAIN sched.week_schedules
        /\ ~IsNone(sched.week_schedules[sched.date_ranges[i].week_schedule_id]
                                       [Weekday(date) + 1]) }

\* C11: a date on which no exception day falls and which lies in the (month, day)
\* window of an active program, recurring or not, gets the schedule that the week
\* pattern of such a program names for its weekday, not that of the base week.
C11_EveryProgramMatches ==
    (/\ call.op = "get_schedule_for_date"
     /\ ExceptionsOn(call.date) = {}
     /\ WindowProgramsOn(call.date) # {}) =>
        /\ ~res.raised
        /\ \E i \in WindowProgramsOn(call.date) :
              res.val = sched.week_schedules
                           [sched.date_ranges[i].week_schedule_id]
                           [Weekday(call.date) + 1]

\* C12: on a date on which exception days fall, the schedule returned is that of
\* one of them whose loaded priority (50 when none was entered) is the highest
\* among those that fall on the date.
C12_HighestPriorityException ==
    (call.op = "get_schedule_for_date" /\ ExceptionsOn(call.date) # {}) =>
        /\ ~res.raised
        /\ \E i \in ExceptionsOn(call.date) :
              /\ res.val = sched.exception_days[i].day_schedule_name
              /\ \A j \in ExceptionsOn(call.date) :
                    sched.exception_days[j].priority <= sched.exception_days[i].priority

\* no source names a schedule for the date: no exception day falls on it, no
\* recurring program holds it with an entry for its weekday, and the base week
\* pattern is missing or has no entry for its weekday
NothingNamedOn(date) ==
    /\ ExceptionsOn(date) = {}
    /\ ProgramsOn(date) = {}
    /\ \/ IsNone(sched.template.base_week_schedule_id)
       \/ Val(sched.template.base_week_schedule_id) \notin DOMAIN sched.week_schedules
       \/ IsNone(sched.week_schedules[Val(sched.template.base_week_schedule_id)]
                                     [Weekday(date) + 1])

\* the name the date resolves to is a configured day schedule
ResolvedNameConfigured(date) ==
    LET name == get_schedule_for_date(loaded, date)
    IN  /\ ~name.raised
        /\ ~IsNone(name.val)
        /\ \E i \in 1..Len(loaded.schedules) : loaded.schedules[i].name = Val(name.val)

\* C13: configuration that cannot be resolved raises: the constructor when the
\* site has no template, get_schedule_for_date when nothing names a schedule for
\* the date and no day schedule is configured, and get_periods whenever the
\* resolved name is not a configured schedule (it never answers with an empty
\* list then).
C13_HardFailure ==
    /\ (database.schedule_templates = <<>>) =>
          (call.op = "__init__" /\ res.raised /\ sched = None)
    /\ (/\ call.op = "get_schedule_for_date"
        /\ NothingNamedOn(call.date)
        /\ sched.schedules = <<>>) => res.raised
    /\ (call.op = "get_periods" /\ ~ResolvedNameConfigured(call.date)) => res.raised

\* New Year's Eve: the exception day that falls on it names no existing schedule
C13_Witness ==
    /\ call.op = "get_periods"
    /\ call.date = Date(2024, 12, 31)
    /\ ExceptionsOn(call.date) # {}
    /\ IsNone(get_schedule_for_date(loaded, call.date).val)
    /\ res.raised

\* the recurring programs whose window holds the date, whatever their week pattern
MatchingProgramsOn(date) ==
    { i \in 1..Len(sched.date_ranges) :
        sched.date_ranges[i].is_recurring /\ InWindow(sched.date_ranges[i], date) }

\* the name the week pattern of program i has for the weekday of the date
ProgramEntry(i, date) ==
    sched.week_schedules[sched.date_ranges[i].week_schedule_id][Weekday(date) + 1]

\* the base week pattern of the template names a schedule for the weekday
BaseSuppliesOn(date) ==
    /\ ~IsNone(sched.template.base_week_schedule_id)
    /\ Val(sched.template.base_week_schedule_id) \in DOMAIN sched.week_schedules
    /\ ~IsNone(sched.week_schedules[Val(sched.template.base_week_schedule_id)]
                                   [Weekday(date) + 1])

\* the answer on a date without exception day, source by source
ResolvedWithoutException(date, answer) ==
    IF ProgramsOn(date) # {}
    THEN /\ ~answer.raised
         /\ \E i \in ProgramsOn(date) :
               /\ answer.val = ProgramEntry(i, date)
               /\ \A j \in ProgramsOn(date) :
                     sched.date_ranges[j].priority <= sched.date_ranges[i].priority
    ELSE IF BaseSuppliesOn(date)
    THEN /\ ~answer.raised
         /\ answer.val = sched.week_schedules[Val(sched.template.base_week_schedule_id)]
                                             [Weekday(date) + 1]
    ELSE IF sched.schedules # <<>>
    THEN ~answer.raised /\ answer.val = Some(sched.schedules[1].name)
    ELSE answer.raised

\* C22: on a date without exception day the schedule is that of the matching
\* program of highest priority whose week pattern exists and names a schedule
\* for the weekday, matching programs without such an entry being passed over;
\* with no such program it is the entry of the template's base week pattern,
\* and with none there the first configured schedule.
C22_ProgramsThenBase ==
    (call.op = "get_schedule_for_date" /\ ExceptionsOn(call.date) = {}) =>
        ResolvedWithoutException(call.date, res)

\* a matching program of higher priority passed over for want of an entry or of
\* its week pattern, the schedule supplied by a program of lower priority and
\* not that of the base week
C22_Witness ==
    /\ call.op = "get_schedule_for_date"
    /\ ExceptionsOn(call.date) = {}
    /\ ~res.raised
    /\ BaseSuppliesOn(call.date)
    /\ res.val # sched.week_schedules[Val(sched.template.base_week_schedule_id)]
                                     [Weekday(call.date) + 1]
    /\ \E i \in ProgramsOn(call.date), j \in MatchingProgramsOn(call.date) \ ProgramsOn(call.date) :
          /\ res.val = ProgramEntry(i, call.date)
          /\ sched.date_ranges[j].priority > sched.date_ranges[i].priority

\* Easter Sunday of the Gregorian calendar by the computus in the form of
\* Knuth, The Art of Computer Programming, 1.3.2 exercise 14: golden number,
\* century corrections, epact, the full moon and the Sunday after it
GregorianEaster(year) ==
    LET golden == (year % 19) + 1
        century == (year \div 100) + 1
        skipped == ((3 * century) \div 4) - 12
        moon == ((8 * century + 5) \div 25) - 5
        sunday == ((5 * year) \div 4) - skipped - 10
        raw == (11 * golden + 20 + moon - skipped) % 30
        epact == IF (raw = 25 /\ golden > 11) \/ raw = 24 THEN raw + 1 ELSE raw
        full == IF 44 - epact < 21 THEN 74 - epact ELSE 44 - epact
        n == full + 7 - ((sunday + full) % 7)
    IN  IF n > 31 THEN Date(year, 4, n - 31) ELSE Date(year, 3, n)

\* the Easter date computed for a year that has no row in the lookup
ComputedEaster ==
    /\ call.op = "_get_easter_date"
    /\ call.date.year \notin DOMAIN sched.holiday_dates

\* C23: for a year of the range without a row in the lookup, _get_easter_date
\* returns a Sunday from March 22 to April 25 of that year, the Gregorian
\* Easter date; for 2024 it returns March 31; and of the dates of 2024 the
\* exception day with offset -2 falls on March 29 only and the one with offset
\* +1 on April 1 only.
C23_EasterDate ==
    /\ ComputedEaster =>
          /\ Val(res.val).year = call.date.year
          /\ Weekday(Val(res.val)) = 6
          /\ MonthDay(3, 22) <= MonthDay(Val(res.val).month, Val(res.val).day)
          /\ MonthDay(Val(res.val).month, Val(res.val).day) <= MonthDay(4, 25)
          /\ Val(res.val) = GregorianEaster(call.date.year)
    /\ (call.op = "_get_easter_date" /\ call.date.year = ReferenceYear) =>
          Val(res.val) = Date(ReferenceYear, 3, 31)
    /\ (call.op = "_check_exception_days") =>
          /\ (~IsNone(res.val) /\ Val(res.val).easter_offset = Some(-2))
                <=> call.date = Date(ReferenceYear, 3, 29)
          /\ (~IsNone(res.val) /\ Val(res.val).easter_offset = Some(1))
                <=> call.date = Date(ReferenceYear, 4, 1)
          /\ ~IsNone(res.val) =>
                call.date \in {Date(ReferenceYear, 3, 29), Date(ReferenceYear, 4, 1)}

\* the Easter date computed for a year in which the correction term of the
\* algorithm is not zero
C23_Witness ==
    /\ ComputedEaster
    /\ call.date.year = 1954
    /\ Val(res.val) = Date(1954, 4, 18)

(***************************************************************************)
(* Properties of the simulation                                            *)
(***************************************************************************)
Simulated == results # None
LastControl == Val(results).control
LastDemand == Val(results).demand
HpCapacity == Kw(config, config.heating_system.hp_capacity_kw)
BoilerCapacity == Kw(config, config.heating_system.boiler_capacity_kw)

\* C1: the record execute_control returns for an hour, whatever branch made it,
\* has Q_delivered = Q_hp + Q_boiler and Q_unmet = max(0, Q_needed - Q_delivered),
\* which is never negative
C1_DeliveredAndUnmet ==
    Simulated =>
        /\ LastControl.Q_delivered = LastControl.Q_hp + LastControl.Q_boiler
        /\ LastControl.Q_unmet = Max(0, LastControl.Q_needed - LastControl.Q_delivered)
        /\ LastControl.Q_unmet >= 0

\* an hour under a closed plan in which both units run and demand is still unmet
C1_Witness ==
    /\ Simulated
    /\ LastControl.case = 4
    /\ ~LastDemand.pool_open
    /\ LastControl.Q_hp > 0
    /\ LastControl.Q_boiler > 0
    /\ LastControl.Q_unmet > 0

\* C2: in every hour the dispatched Q_hp is at most hp_capacity_kw and the
\* dispatched Q_boiler at most boiler_capacity_kw
C2_WithinCapacity ==
    Simulated =>
        /\ LastControl.Q_hp <= HpCapacity
        /\ LastControl.Q_boiler <= BoilerCapacity

\* an open hour of a case 2 plan that asks for more than the boiler has
C2_Witness ==
    /\ Simulated
    /\ LastDemand.pool_open
    /\ open_plan # None
    /\ Val(open_plan).case = 2
    /\ Val(open_plan).boiler_rate_day > BoilerCapacity
    /\ LastControl.Q_hp = HpCapacity
    /\ LastControl.Q_boiler = BoilerCapacity
    /\ LastControl.Q_unmet > 0

\* C3: the water temperature carried from hour to hour, and the water_temp
\* recorded for each hour, stay within [min_temp - 1, max_temp]
C3_WaterWithinLimits ==
    LET low == Deg(config, config.pool.min_temp) - Deg(config, 1)
        high == Deg(config, config.pool.max_temp)
    IN  /\ low <= T_water /\ T_water <= high
        /\ Simulated => (low <= Val(results).water_temp
                         /\ Val(results).water_temp <= high)

\* the water at a limit after an hour whose energy balance pushed beyond it
C3_Witness ==
    /\ Simulated
    /\ \/ /\ T_water = Deg(config, config.pool.max_temp)
          /\ LastControl.Q_delivered - LastDemand.Q_total > 0
       \/ /\ T_water = Deg(config, config.pool.min_temp) - Deg(config, 1)
          /\ LastControl.Q_delivered - LastDemand.Q_total < 0

\* the site of C8 and C9: heat pump 100 kW, boiler 200 kW, target 28,
\* predictive control
PlannedSite ==
    /\ config.control.mode = "predictive"
    /\ config.heating_system.hp_capacity_kw = 100
    /\ config.heating_system.boiler_capacity_kw = 200
    /\ config.pool.target_temp = 28

SinglePeriodDaily ==
    sched = LoadScheduler(Database(Some(4), DaySchedules, <<>>, <<>>, NoHolidays))

ConstantWeather ==
    \A b1 \in DOMAIN weather_df.rows, b2 \in DOMAIN weather_df.rows :
        weather_df.rows[b1] = weather_df.rows[b2]

\* an hour of the open window 10:00-20:00 run under a case 1 open plan
C8_Case1OpenHour ==
    /\ Simulated
    /\ PlannedSite /\ SinglePeriodDaily /\ ConstantWeather
    /\ LastDemand.pool_open
    /\ open_plan # None
    /\ Val(open_plan).case = 1

\* C8: with one daily period 10:00-20:00, heat pump 100 kW, boiler 200 kW,
\* target 28 and constant weather, every hour of an open window whose plan is
\* case 1 dispatches no boiler and has no unmet demand
C8_Case1NoBoilerNoUnmet ==
    C8_Case1OpenHour =>
        /\ LastControl.Q_boiler = 0
        /\ LastControl.Q_unmet = 0

\* the closed plan of an evening 14 hours before the opening, the forecast
\* average day demand being 250 kW in each of the three passes
C9_Planned250 ==
    /\ Simulated
    /\ PlannedSite
    /\ Val(results).timestamp.hour = 20
    /\ closed_plan # None
    /\ Val(closed_plan).hours_to_open = 14
    /\ LET passes == ForecastPasses(config, sched, weather_df, Val(results).idx + 14)
       IN  /\ passes.first = Kw(config, 250)
           /\ passes.avg_demand = Kw(config, 250)
           /\ passes.avg_demand_final = Kw(config, 250)

\* C9: such a plan is case 3 with target_night = max_temp, day_hp_power = 100
\* and day_boiler_power = 150, whatever the pool volume
C9_Case3At250 ==
    C9_Planned250 =>
        /\ Val(closed_plan).case = 3
        /\ Val(closed_plan).target_night = Deg(config, config.pool.max_temp)
        /\ Val(closed_plan).day_hp_power = Kw(config, 100)
        /\ Val(closed_plan).day_boiler_power = Kw(config, 150)

\* C14: an hour of a reactive run.  With the water below target the heat needed
\* is the demand plus min((target - T_water) x thermal_mass_rate, 200 kW), else
\* the demand; the boiler delivers only in hours in which the heat pump is at
\* capacity, and demand is unmet only in hours in which both are at capacity.
C14_ReactiveHpFirst ==
    [][ (config.control.mode = "reactive") =>
          LET control == Val(results').control
              Q_demand == Val(results').demand.Q_total
              target == Deg(config, config.pool.target_temp)
          IN  /\ control.Q_needed =
                    Q_demand + (IF T_water < target
                                THEN Min(target - T_water, Kw(config, 200))
                                ELSE 0)
              /\ (control.Q_boiler > 0) => (control.Q_hp = HpCapacity)
              /\ (control.Q_unmet > 0) =>
                    (control.Q_hp = HpCapacity /\ control.Q_boiler = BoilerCapacity)
      ]_vars

\* a reactive hour with the water below target in which the heat pump and the
\* boiler at capacity leave demand unmet
C14_Witness ==
    /\ Simulated
    /\ config.control.mode = "reactive"
    /\ LastControl.mode = "reactive"
    /\ LastControl.Q_needed > LastDemand.Q_total
    /\ LastControl.Q_hp = HpCapacity
    /\ LastControl.Q_boiler = BoilerCapacity
    /\ LastControl.Q_unmet > 0

LastHour == Val(results).timestamp

\* a closed hour of a predictive run, on a day that has periods, after which
\* there is no closed plan
C15_NoPlanHour ==
    /\ Simulated
    /\ config.control.mode = "predictive"
    /\ PeriodsOn(LastHour.date).val # <<>>
    /\ ~LastDemand.pool_open
    /\ closed_plan = None

ThisHour == TimestampAt(weather_df, idx)

\* the hours of a date at which a period opens, and at which one closes
OpenTimes(date) ==
    { PeriodsOn(date).val[i].from : i \in 1..Len(PeriodsOn(date).val) }
CloseTimes(date) ==
    { PeriodsOn(date).val[i].to : i \in 1..Len(PeriodsOn(date).val) }

IsOpenHour(ts) ==
    \E i \in 1..Len(PeriodsOn(ts.date).val) : Holds(PeriodsOn(ts.date).val[i], ts.hour)

\* C16: in a predictive run the open plan is replaced only in an hour at which a
\* period opens, or in an open hour that has no open plan yet, and the closed plan
\* only in an hour at which a period closes, or in a closed hour that has no
\* closed plan yet; an open hour that follows an open hour without a transition
\* dispatches the same Q_hp and Q_boiler as the hour before.
C16_PlansChangeAtTransitions ==
    [][ (config.control.mode = "predictive") =>
          /\ (open_plan' # open_plan) =>
                \/ ThisHour.hour \in OpenTimes(ThisHour.date)
                \/ IsOpenHour(ThisHour) /\ open_plan = None
          /\ (closed_plan' # closed_plan) =>
                \/ ThisHour.hour \in CloseTimes(ThisHour.date)
                \/ ~IsOpenHour(ThisHour) /\ closed_plan = None
          /\ (/\ Simulated
              /\ LastDemand.pool_open
              /\ IsOpenHour(ThisHour)
              /\ ThisHour.hour \notin OpenTimes(ThisHour.date)
                                        \cup CloseTimes(ThisHour.date)) =>
                /\ open_plan' = open_plan
                /\ Val(results').control.Q_hp = LastControl.Q_hp
                /\ Val(results').control.Q_boiler = LastControl.Q_boiler
      ]_vars

\* an open hour after the hour of opening, run under the plan made at the opening
\* although the water has left the temperature the plan was made at
C16_Witness ==
    /\ Simulated
    /\ config.control.mode = "predictive"
    /\ LastDemand.pool_open
    /\ LastHour.hour \notin OpenTimes(LastHour.date) \cup CloseTimes(LastHour.date)
    /\ open_plan # None
    /\ closed_plan # None
    /\ Val(open_plan).temp_start # Val(results).water_temp
    /\ LastControl.Q_hp = Min(Val(open_plan).hp_rate_day, HpCapacity)

\* the hours from an hour to the first opening after it
HoursUntilOpening(ts) ==
    LET ahead == { 24 * kh[1] + kh[2] - ts.hour : kh \in OpeningsAhead(ts.date, ts.hour) }
    IN  CHOOSE n \in ahead : \A m \in ahead : n <= m

\* a closed hour of a predictive run executed under a closed plan
C17_ClosedPlanHour ==
    /\ Simulated
    /\ config.control.mode = "predictive"
    /\ PeriodsOn(LastHour.date).val # <<>>
    /\ ~LastDemand.pool_open
    /\ closed_plan # None

\* C17: in a closed hour executed under a closed plan, the hours remaining that
\* the dispatch works with (the plan's hours_to_open less the elapsed hours it
\* computes) are the hours left until the opening, and at least 1; also for a
\* plan made in the first hour of a run and after days without periods.
C17_HoursRemainingToOpening ==
    C17_ClosedPlanHour =>
        LET hours_remaining ==
                Val(closed_plan).hours_to_open - HoursSincePlan(sched, LastHour)
        IN  /\ hours_remaining = HoursUntilOpening(LastHour)
            /\ hours_remaining >= 1

Duration(period) ==
    IF period.from < period.to THEN period.to - period.from
    ELSE 24 - period.from + period.to

\* the open plan is the plan for a period of so many hours, made in the hour the
\* next pass simulates with the water as it is: the forecast sums the demand of
\* the period's hours at that water temperature
IsOpeningPlanFor(plan, hours) ==
    LET demand == SumDemand(config, sched, weather_df, idx, hours, T_water)
        buffer == Max(0, T_water - Deg(config, config.pool.target_temp))
        available == buffer + HpCapacity * hours
    IN  /\ plan.temp_start = T_water
        /\ plan.day_demand = demand
        /\ plan.energy_buffer = buffer
        /\ IF available >= demand
           THEN /\ plan.case = 1
                /\ plan.boiler_rate_day = 0
                /\ plan.hp_rate_day = Max(0, Min(Div(demand - buffer, hours), HpCapacity))
           ELSE /\ plan.case = 2
                /\ plan.hp_rate_day = HpCapacity
                /\ plan.boiler_rate_day > 0
                /\ plan.boiler_rate_day = DivUp(demand - available, hours)

\* C18: a new open plan is case 1 with no boiler and the heat pump at (forecast
\* demand - buffer energy) / period hours within [0, hp_capacity] exactly when
\* buffer energy + hp_capacity x period hours covers the forecast demand, and
\* else case 2 with the heat pump at capacity and the boiler at the positive
\* remainder per hour; the forecast is made at the water temperature of the
\* planning hour.
C18_OpeningPlanCases ==
    [][ (open_plan' # open_plan) =>
          \E i \in 1..Len(PeriodsOn(ThisHour.date).val) :
              /\ Holds(PeriodsOn(ThisHour.date).val[i], ThisHour.hour)
              /\ IsOpeningPlanFor(Val(open_plan'),
                                  Duration(PeriodsOn(ThisHour.date).val[i]))
      ]_vars

\* a plan of case 2 made at an opening with the water above target
C18_Witness ==
    /\ Simulated
    /\ LastHour.hour \in OpenTimes(LastHour.date)
    /\ open_plan # None
    /\ Val(open_plan).case = 2
    /\ Val(open_plan).energy_buffer > 0
    /\ Val(open_plan).boiler_rate_day > 0
    /\ LastControl.Q_boiler > 0

\* the hours since the plan of the last hour was made: the plan counted
\* hours_to_open hours to the opening when it was made
Elapsed == Val(closed_plan).hours_to_open - HoursUntilOpening(LastHour)

\* the three stages of a unit that starts start_in hours after planning
Waiting(start_in, e) == e < FracFloor(start_in)
Straddling(start_in, e) == FracFloor(start_in) <= e /\ e * start_in.d < start_in.n
Started(start_in, e) == e * start_in.d >= start_in.n

\* power x (1 - fractional part of start_in)
ScaledCeiling(power, start_in) ==
    MulDivN(power, start_in.d - (start_in.n % start_in.d), start_in.d)

\* the ceiling of a unit e hours after planning; none while it waits
Ceiling(power, start_in, e) ==
    IF Started(start_in, e) THEN Some(power)
    ELSE IF Straddling(start_in, e) THEN Some(ScaledCeiling(power, start_in))
    ELSE None

HpCeiling(plan, e) == Ceiling(plan.night_hp_power, plan.start_hp_in, e)

BoilerCeiling(plan, e) ==
    IF IsNone(plan.start_boiler_in) THEN None
    ELSE Ceiling(plan.night_boiler_power, Val(plan.start_boiler_in), e)

\* the dispatch of the last hour follows the stages of the plan
FollowsStages(plan, control, Q_demand, e) ==
    /\ IsNone(HpCeiling(plan, e)) =>
          /\ control.Q_needed = Q_demand
          /\ control.Q_hp = Min(Q_demand, HpCapacity)
          /\ control.Q_boiler = 0
          /\ ~control.preheat
    /\ ~IsNone(HpCeiling(plan, e)) =>
          control.Q_hp = Min(control.Q_needed, Val(HpCeiling(plan, e)))
    /\ IsNone(BoilerCeiling(plan, e)) => control.Q_boiler = 0
    /\ ~IsNone(BoilerCeiling(plan, e)) =>
          control.Q_boiler = Min(control.Q_needed - control.Q_hp,
                                 Val(BoilerCeiling(plan, e)))

\* C19: in a closed hour under a closed plan, e hours after the plan was made,
\* the heat pump waits while e < floor(start_hp_in) (Q_needed = Q_demand, Q_hp =
\* min(Q_demand, hp_capacity), no boiler, no preheat), runs under the ceiling
\* night_hp_power x (1 - fractional part of start_hp_in) while
\* floor(start_hp_in) <= e < start_hp_in, and under the full night_hp_power
\* from e >= start_hp_in; the boiler likewise relative to start_boiler_in. As e
\* counts the hours one by one, the scaled ceiling then applies in the one
\* hour e = floor of the start.
C19_FractionalStart ==
    C17_ClosedPlanHour =>
        FollowsStages(Val(closed_plan), LastControl, LastDemand.Q_total, Elapsed)

\* the heat pump alone covers the energy the plan needs before the opening
HpSuffices(plan) == plan.energy_needed <= HpCapacity * plan.hours_to_open

\* C20: a closed plan has no start time for the boiler exactly when the total
\* energy needed is at most hp_capacity x hours_to_open, and a closed hour
\* executed under a plan without one dispatches no boiler power, whatever the
\* demand and the water temperature.
C20_NoBoilerStart ==
    (config.control.mode = "predictive" /\ closed_plan # None) =>
        /\ IsNone(Val(closed_plan).start_boiler_in) <=> HpSuffices(Val(closed_plan))
        /\ (C17_ClosedPlanHour /\ IsNone(Val(closed_plan).start_boiler_in)) =>
              LastControl.Q_boiler = 0

\* a closed hour under a plan without boiler start in which the heat pump's
\* ceiling leaves part of the need unmet
C20_Witness ==
    /\ C17_ClosedPlanHour
    /\ IsNone(Val(closed_plan).start_boiler_in)
    /\ HpSuffices(Val(closed_plan))
    /\ LastControl.Q_hp > 0
    /\ LastControl.Q_unmet > 0
    /\ LastControl.Q_boiler = 0

TargetTemp == Deg(config, config.pool.target_temp)
MaxTemp == Deg(config, config.pool.max_temp)

\* the case, night target and day powers of a closed plan are consistent
PlanWithinLimits(plan) ==
    /\ plan.case \in 1..4
    /\ TargetTemp <= plan.target_night /\ plan.target_night <= MaxTemp
    /\ plan.case = 1 => plan.target_night = TargetTemp
    /\ plan.case \in {3, 4} => plan.target_night = MaxTemp
    /\ plan.day_hp_power <= HpCapacity
    /\ 0 <= plan.day_boiler_power /\ plan.day_boiler_power <= BoilerCapacity
    /\ plan.case = 4 => plan.day_boiler_power = BoilerCapacity
    /\ plan.case \in {1, 2} => plan.day_boiler_power = 0

\* C21: every plan of plan_closed_period has case in {1,2,3,4}, target_night
\* within [target_temp, max_temp] (target_temp in case 1, max_temp in cases 3
\* and 4), day_hp_power <= hp_capacity and 0 <= day_boiler_power <=
\* boiler_capacity, the latter at boiler_capacity in case 4 and 0 in cases 1
\* and 2.
C21_PlanWithinLimits ==
    (config.control.mode = "predictive" /\ closed_plan # None) =>
        PlanWithinLimits(Val(closed_plan))

\* a plan of case 2 whose forecast exceeds the heat pump by more than 5 kW, the
\* raised night target stopped at the maximum temperature
C21_Witness ==
    /\ config.control.mode = "predictive"
    /\ closed_plan # None
    /\ Val(closed_plan).case = 2
    /\ Val(closed_plan).forecast_demand > HpCapacity + Kw(config, 5)
    /\ Val(closed_plan).target_night = MaxTemp

\* the number of hours of the date in which the pool is open
OpenHoursOn(date) ==
    Cardinality({ h \in 0..23 : IsOpenHour([date |-> date, hour |-> h]) })

\* bathers x liters x 4.186 x (T_pool - T_cold) / 3600 kWh spread over the hours
RefillPower(T_pool, hours) ==
    MulDiv(T_pool - Deg(config, config.new_water.pool_refill.cold_water_temp),
           config.new_water.bathers_per_day * config.new_water.pool_refill.liters_per_bather,
           1000 * config.pool.volume_m3 * hours)

\* the new-water loads of the demand record of an hour that began at T_pool
NewWaterInOpenHours(demand, ts, T_pool) ==
    /\ (~demand.pool_open \/ ~config.new_water.enabled) =>
          /\ demand.Q_pool_refill = 0
          /\ demand.Q_shower_thermal = 0
          /\ demand.Q_shower_electric = 0
    /\ (demand.pool_open /\ config.new_water.enabled) =>
          /\ OpenHoursOn(ts.date) >= 1
          /\ demand.Q_pool_refill = RefillPower(T_pool, OpenHoursOn(ts.date))
    /\ config.new_water.shower.connected_to_pool_system => demand.Q_shower_thermal = 0
    /\ ~config.new_water.shower.connected_to_pool_system => demand.Q_shower_electric = 0
    /\ demand.Q_total = demand.Q_losses + demand.Q_pool_refill
                            + demand.Q_shower_electric - demand.Q_solar

\* C24: the new-water loads of an hour are all 0 when the pool is closed or
\* new water is disabled; in an open hour the refill power is the day's refill
\* energy over the open hours of the date, of which there is at least 1; the
\* shower load is thermal only when the showers are not connected and electric
\* only when they are; and the net demand is Q_losses + Q_pool_refill +
\* Q_shower_electric - Q_solar, without Q_shower_thermal.
C24_NewWaterInOpenHours ==
    [][ (idx' = idx + 1) =>
          NewWaterInOpenHours(Val(results').demand, ThisHour, T_water) ]_vars

\* an open hour with refill and a thermal shower load that is no part of the
\* net demand
C24_Witness ==
    /\ Simulated
    /\ LastDemand.pool_open
    /\ config.new_water.enabled
    /\ LastDemand.Q_pool_refill > 0
    /\ LastDemand.Q_shower_thermal > 0
    /\ LastDemand.Q_total =
          LastDemand.Q_losses + LastDemand.Q_pool_refill - LastDemand.Q_solar


\* the conductive loss through the cover in an hour that began at T_pool
CoverLoss(row, T_pool) ==
    Kw(config, row.cover)
        + MulDiv(T_pool - Deg(config, config.pool.target_temp),
                 Kw(config, row.slope), KUnit(config))

\* the demand record of a covered hour, and of an uncovered one
CoverInDemand(demand, row, T_pool) ==
    /\ demand.covered <=> (config.operation.cover.enabled /\ ~demand.pool_open)
    /\ ~(demand.covered /\ demand.pool_open)
    /\ demand.covered =>
          /\ demand.Q_evap = 0 /\ demand.Q_conv = 0 /\ demand.Q_rad = 0
          /\ demand.Q_losses - demand.Q_floor - demand.Q_walls = CoverLoss(row, T_pool)
          /\ demand.Q_solar = MulDiv(Kw(config, row.solar),
                                     config.operation.cover.solar_transmittance_pct, 100)
          /\ FracLE(Whole(config.operation.cover.u_value_w_m2_k), demand.u_effective)
    /\ ~demand.covered =>
          /\ demand.u_effective = Whole(0)
          /\ demand.Q_losses - demand.Q_floor - demand.Q_walls
                = demand.Q_evap + demand.Q_conv + demand.Q_rad
          /\ demand.Q_solar = Kw(config, row.solar)

\* C25: in every hourly demand record, covered is true exactly when the cover
\* is enabled and the pool is closed, so never together with pool_open; when
\* covered, Q_evap, Q_conv and Q_rad are 0, the surface loss is the single
\* conductive term, the solar gain is multiplied by the cover transmittance
\* and the effective U-value is not below the rated one; when not covered,
\* u_effective is 0 and the surface loss is Q_evap + Q_conv + Q_rad.
C25_CoverInDemand ==
    [][ (idx' = idx + 1) =>
          CoverInDemand(Val(results').demand, RowAt(weather_df, idx), T_water) ]_vars

\* a covered hour in calm air, where the formula gives less than the rated
\* U-value, with sun on the cover
C25_Witness ==
    /\ Simulated
    /\ LastDemand.covered
    /\ RowAt(weather_df, Val(results).idx).wind_speed = 0
    /\ LastDemand.u_effective = Whole(config.operation.cover.u_value_w_m2_k)
    /\ LastDemand.Q_solar > 0
    /\ LastDemand.Q_solar < Kw(config, RowAt(weather_df, Val(results).idx).solar)


\* C26: in every simulated hour and every control mode the dispatched Q_hp
\* and Q_boiler are not negative, also when the net demand Q_total is
\* negative because the solar gain exceeds the losses.
C26_NonNegativeDispatch ==
    Simulated => (LastControl.Q_hp >= 0 /\ LastControl.Q_boiler >= 0)


\* the start times of a closed plan lie within the closed period, and a
\* boiler start comes with an immediate heat pump start
StartsWithinPeriod(plan) ==
    /\ FracLE(Whole(0), plan.start_hp_in)
    /\ FracLE(plan.start_hp_in, Whole(plan.hours_to_open))
    /\ plan.start_boiler_in # None =>
          /\ FracLE(Whole(0), Val(plan.start_boiler_in))
          /\ FracLE(Val(plan.start_boiler_in), Whole(plan.hours_to_open))
          /\ plan.start_hp_in = Whole(0)

\* C27: every plan returned by plan_closed_period has
\* 0 <= start_hp_in <= hours_to_open, start_boiler_in null or within
\* [0, hours_to_open], and start_hp_in = 0 whenever start_boiler_in is not
\* null, so that in no closed hour the boiler is active while the heat pump
\* is not.
C27_StartsWithinPeriod ==
    (config.control.mode = "predictive" /\ closed_plan # None) =>
        StartsWithinPeriod(Val(closed_plan))


\* the thermostat rule of reactive mode in an hour that began at T_pool
ThermostatRule(control, Q_demand, T_pool) ==
    LET Q_recovery == IF T_pool < TargetTemp
                      THEN Min(TargetTemp - T_pool, Kw(config, 200)) ELSE 0
    IN  /\ control.Q_needed = Q_demand + Q_recovery
        /\ control.Q_hp = Min(control.Q_needed, HpCapacity)
        /\ control.Q_boiler = Min(control.Q_needed - control.Q_hp, BoilerCapacity)
        /\ control.Q_delivered = control.Q_hp + control.Q_boiler
        /\ control.Q_unmet = Max(0, control.Q_needed - control.Q_delivered)
        /\ control.case = 0
        /\ control.preheat = FALSE

\* C28: in predictive mode, on a date whose schedule has no periods, the hour
\* is dispatched by the thermostat rule of reactive mode, with mode
\* 'no_periods', case 0 and no preheat, and open_plan and closed_plan stay as
\* they were, also when a closed plan made at the previous close transition
\* exists.
C28_NoPeriodsThermostat ==
    [][ (idx' = idx + 1 /\ config.control.mode = "predictive"
            /\ PeriodsOn(ThisHour.date).val = <<>>) =>
          /\ ThermostatRule(Val(results').control, Val(results').demand.Q_total, T_water)
          /\ Val(results').control.mode = "no_periods"
          /\ open_plan' = open_plan
          /\ closed_plan' = closed_plan ]_vars

\* an hour of a day without periods, below target, under the closed plan made
\* when the pool closed the evening before and an open plan of that day
C28_Witness ==
    /\ Simulated
    /\ LastControl.mode = "no_periods"
    /\ closed_plan # None
    /\ open_plan # None
    /\ Val(closed_plan).hours_to_open > 24
    /\ LastControl.Q_needed > LastDemand.Q_total


\* the hour last simulated ran under the planned control of predictive mode
Planned ==
    /\ config.control.mode = "predictive"
    /\ PeriodsOn(LastHour.date).val # <<>>

\* the closed plan's heat pump is active in the hour last simulated, and
\* hours remain until the opening, by the hours counted since the plan
HpActive ==
    /\ HoursSincePlan(sched, LastHour) >= FracFloor(Val(closed_plan).start_hp_in)
    /\ Val(closed_plan).hours_to_open - HoursSincePlan(sched, LastHour) > 0

\* C29: preheat is true only in closed hours of predictive mode in which a
\* closed plan exists, the heat pump is active and hours_remaining > 0; it is
\* false in every open hour, in reactive mode, on days without periods and
\* without a closed plan. The case reported is 0 in reactive, no_periods and
\* closed_no_plan hours, 1 or 2 in open hours, and 1 to 4 in closed hours
\* under a plan.
C29_PreheatAndCase ==
    Simulated =>
        /\ LastControl.preheat =>
              /\ Planned
              /\ ~IsOpenHour(LastHour)
              /\ closed_plan # None
              /\ HpActive
        /\ LastControl.mode \in {"reactive", "no_periods", "closed_no_plan"} =>
              LastControl.case = 0
        /\ config.control.mode = "reactive" => LastControl.mode = "reactive"
        /\ (config.control.mode = "predictive" /\ ~Planned) =>
              LastControl.mode = "no_periods"
        /\ (Planned /\ ~IsOpenHour(LastHour) /\ closed_plan = None) =>
              LastControl.mode = "closed_no_plan"
        /\ (Planned /\ IsOpenHour(LastHour)) => LastControl.case \in {1, 2}
        /\ (Planned /\ ~IsOpenHour(LastHour) /\ closed_plan # None) =>
              LastControl.case \in 1..4

\* a closed hour under a case 3 plan in which the heat pump preheats
C29_Witness ==
    /\ Simulated
    /\ Planned
    /\ ~IsOpenHour(LastHour)
    /\ closed_plan # None
    /\ LastControl.preheat
    /\ LastControl.case = 3
    /\ HpActive


(***************************************************************************)
(* Properties of the database connections                                  *)
(***************************************************************************)
\* the object's connection, open before the step
WasConnected(obj) ==
    ~IsNone(_connection[obj]) /\ server[Val(_connection[obj])] = "connected"

\* connect returns the open connection, or opens one the server has not
\* handed out before, or raises and leaves everything as it was
ConnectsWhenNotOpen(obj) ==
    /\ WasConnected(obj) =>
          /\ ~db_call'.raised
          /\ db_call'.val = _connection[obj]
          /\ server' = server
          /\ _connection' = _connection
    /\ (~WasConnected(obj) /\ ~db_call'.raised) =>
          /\ Len(server') = Len(server) + 1
          /\ SubSeq(server', 1, Len(server)) = server
          /\ server'[Len(server')] = "connected"
          /\ _connection'[obj] = Some(Len(server'))
          /\ db_call'.val = _connection'[obj]
    /\ db_call'.raised => (server' = server /\ _connection' = _connection)

\* every cursor a query opens is closed when the query returns or raises;
\* only a query that could not connect opens none
ClosesItsCursor(obj) ==
    /\ cursors'.opened = cursors'.closed
    /\ \/ cursors'.opened = cursors.opened + 1
       \/ db_call'.raised /\ ~WasConnected(obj) /\ cursors' = cursors

\* the scheduler closes the connection of its db if it made the db itself,
\* and leaves a db it was given as it is
ClosesItsOwn(s) ==
    /\ s._owns_db =>
          /\ WasConnected(s.db) =>
                /\ server' = [server EXCEPT ![Val(_connection[s.db])] = "closed"]
                /\ _connection' = [_connection EXCEPT ![s.db] = None]
          /\ ~WasConnected(s.db) => (server' = server /\ _connection' = _connection)
    /\ ~s._owns_db => (server' = server /\ _connection' = _connection)

\* C30: connect opens a new connection only when none is open and otherwise
\* returns the existing one; execute closes its cursor on success and on
\* error; PoolSchedulerDB.close, and leaving the with-block also by an
\* exception, closes the connection if and only if the scheduler made it
\* itself, never one passed in by the caller; after close a later connect
\* opens a fresh connection.
C30_ConnectionLifecycle ==
    [][ (db_call'.seq = db_call.seq + 1) =>
          /\ db_call'.op = "connect" => ConnectsWhenNotOpen(db_call'.obj)
          /\ db_call'.op = "execute" => ClosesItsCursor(db_call'.obj)
          /\ db_call'.op \in {"scheduler.close", "__exit__"} =>
                ClosesItsOwn(Val(scheduler)) ]_vars

\* a scheduler on its own connection has been left by an exception in its
\* with-block, which closed the connection the constructor had opened
C30_Witness ==
    /\ db_call.op = "__exit__"
    /\ db_call.raised
    /\ with_block = "left"
    /\ Val(scheduler)._owns_db
    /\ server = <<"closed">>
    /\ _connection["own"] = None
    /\ cursors = [opened |-> 1, closed |-> 1]

====
